---- MODULE Spec2Model ----
(***************************************************************************)
(* Voice to Todoist: the clipboard capture handshake, the reference cache, *)
(* the classifier client with its local rules, the resolver and the task   *)
(* filer, as implemented twice: the Raycast extension                      *)
(* (extension/src/record-voice-task.ts, impl = "ext") and the script       *)
(* command (tools/voice-note-raycast.js, impl = "script").                 *)
(*                                                                         *)
(* Strings are sequences of one-character strings, so that trimming,       *)
(* lower-casing, substring search and length are computed, not assumed.    *)
(***************************************************************************)
EXTENDS Integers, Sequences, FiniteSets, TLC

\* ------------------------------------------------------------------ bounds

\* Polls of the clipboard one capture window holds (20 000 ms / 80 ms in the code).
MaxPolls == 3
\* Writes to the clipboard by other programs (the recorder, the user) in one run.
MaxClipWrites == 2

\* ----------------------------------------------------------------- strings

Upper == <<"A","B","C","D","E","F","G","H","I","J","K","L","M",
           "N","O","P","Q","R","S","T","U","V","W","X","Y","Z">>
Lower == <<"a","b","c","d","e","f","g","h","i","j","k","l","m",
           "n","o","p","q","r","s","t","u","v","w","x","y","z">>
Digits == {"0","1","2","3","4","5","6","7","8","9"}

SetMin(S) == CHOOSE x \in S : \A y \in S : x <= y
SetMax(S) == CHOOSE x \in S : \A y \in S : x >= y

toLowerChar(c) ==
    IF \E i \in 1..26 : Upper[i] = c
    THEN Lower[CHOOSE i \in 1..26 : Upper[i] = c]
    ELSE c

\* String.prototype.toLowerCase
toLowerCase(s) == [i \in 1..Len(s) |-> toLowerChar(s[i])]

IsSpace(c) == c \in {" ", "\n", "\t", "\r"}

\* String.prototype.trim
trim(s) ==
    LET keep == {i \in 1..Len(s) : ~IsSpace(s[i])}
    IN  IF keep = {} THEN <<>> ELSE SubSeq(s, SetMin(keep), SetMax(keep))

\* String.prototype.includes
includes(hay, needle) ==
    \E i \in 0..(Len(hay) - Len(needle)) :
        \A k \in 1..Len(needle) : hay[i + k] = needle[k]

\* s.split("\n")[0]
firstLine(s) ==
    LET nl == {i \in 1..Len(s) : s[i] = "\n"}
    IN  IF nl = {} THEN s ELSE SubSeq(s, 1, SetMin(nl) - 1)

\* s.slice(0, n)
sliceTo(s, n) == SubSeq(s, 1, IF Len(s) < n THEN Len(s) ELSE n)

\* Array.from(new Set(a)): the first occurrence of each element, in order.
uniq(a) ==
    LET first == {i \in 1..Len(a) : \A j \in 1..(i - 1) : a[j] # a[i]}
        RECURSIVE pick(_)
        pick(i) == IF i > Len(a) THEN <<>>
                   ELSE IF i \in first THEN <<a[i]>> \o pick(i + 1)
                   ELSE pick(i + 1)
    IN  pick(1)

\* a.filter(Boolean) on an array of strings: the non-empty ones.
filterBoolean(a) ==
    LET RECURSIVE pick(_)
        pick(i) == IF i > Len(a) THEN <<>>
                   ELSE IF a[i] # <<>> THEN <<a[i]>> \o pick(i + 1)
                   ELSE pick(i + 1)
    IN  pick(1)

Range(a) == {a[i] : i \in 1..Len(a)}

\* ------------------------------------------------------- string literals

sVoice    == <<"V","o","i","c","e">>
svoice    == <<"v","o","i","c","e">>
sfinance  == <<"f","i","n","a","n","c","e">>
sWork     == <<"W","o","r","k">>
swork     == <<"w","o","r","k">>
sWorkPad  == <<" ","W","o","r","k"," ">>
sWorkshop == <<"W","o","r","k","s","h","o","p">>
sHome     == <<"H","o","m","e">>
sBills    == <<"U","p","c","o","m","i","n","g"," ","b","i","l","l","s">>
sMeetings == <<"M","e","e","t","i","n","g","s">>
stomorrow == <<"t","o","m","o","r","r","o","w">>
sPayTitle == <<"P","a","y"," ","e","l","e","c","t","r","i","c"," ","b","i","l","l">>
sPayBill  == <<"P","a","y"," ","t","h","e"," ","e","l","e","c","t","r","i","c"," ",
               "b","i","l","l"," ","t","o","m","o","r","r","o","w">>
sPay      == <<"P","a","y"," ","t","h","e">>
sBlank    == <<" "," "," "," ","\n"," "," "," "," ">>
sOld      == <<"o","l","d"," ","c","l","i","p","b","o","a","r","d">>

\* `__VOICE_NOTE_WAIT_${random}_${Date.now()}__`; r stands for the random and
\* time part, which differs from run to run.
SentinelOf(r) ==
    <<"_","_","V","O","I","C","E","_","N","O","T","E","_","W","A","I","T","_">>
        \o <<r>> \o <<"_","_">>

sPayPart  == SubSeq(sPayBill, 1, 16)

\* ------------------------------------------------- 3. the data of a run

\* A project, section or label id; NoId is JavaScript's null / undefined.
NoId == ""
NoArg == <<>>

\* An optional number (priority): <<>> is null / undefined, <<n>> is n.
None == <<>>
Some(n) == <<n>>
\* JavaScript truthiness of an optional number and of a string.
TruthyNum(p) == p # None /\ p[1] # 0
TruthyStr(x) == x # <<>>

\* { projects, labels, sections }: sections maps the ids of the projects whose
\* sections were fetched to their section lists.
Refs(projects, labels, sections) ==
    [projects |-> projects, labels |-> labels, sections |-> sections]
NoSections == <<>>
EmptyRefs == Refs(<<>>, <<>>, NoSections)

Ref(id, name) == [id |-> id, name |-> name]

\* refs.sections[projectId] is truthy: the key is present (an array is truthy,
\* also when empty).
HasSections(sections, projectId) == projectId \in DOMAIN sections

\* refs.sections[projectId] || []
SectionsOf(sections, projectId) ==
    IF projectId \in DOMAIN sections THEN sections[projectId] ELSE <<>>

\* refs.sections[projectId] = list
WithSections(sections, projectId, list) ==
    [q \in (DOMAIN sections) \cup {projectId} |->
        IF q = projectId THEN list ELSE sections[q]]

\* The extracted task (ExtractedTask). A string field that is null, undefined
\* or "" is <<>>: the code reads these fields only through their truthiness.
\* labels and urls that are missing are <<>> (labels = [], urls = [], || []).
Extracted(title, description, category, projectName, sectionName, labels, priority, due, urls) ==
    [title |-> title, description |-> description, category |-> category,
     projectName |-> projectName, sectionName |-> sectionName, labels |-> labels,
     priority |-> priority, due_string |-> due, urls |-> urls]
EmptyObject == Extracted(<<>>, <<>>, <<>>, <<>>, <<>>, <<>>, None, <<>>, <<>>)

\* ----------------------------------------------------- 4.5 name matching

\* String(name).trim().toLowerCase()
NameKey(name) == toLowerCase(trim(name))

FirstSubstringMatch(name, list) ==
    LET hits == {i \in 1..Len(list) : includes(NameKey(list[i].name), NameKey(name))}
    IN  IF name = <<>> \/ hits = {} THEN NoId ELSE list[SetMin(hits)].id

FirstCaseSensitiveMatch(name, list) ==
    LET hits == {i \in 1..Len(list) : trim(list[i].name) = trim(name)}
    IN  IF name = <<>> \/ hits = {} THEN NoId ELSE list[SetMin(hits)].id

\* (list || []).find((x) => String(x.name || "").trim().toLowerCase() === n)
FirstMatch(name, list) ==
    LET hits == {i \in 1..Len(list) : NameKey(list[i].name) = NameKey(name)}
    IN  IF name = <<>> \/ hits = {} THEN NoId ELSE list[SetMin(hits)].id

matchProjectId(name, projects) == FirstMatch(name, projects)

matchSectionIdAnyProject(name, projectId, sectionsByProject) ==
    LET hits == {FirstMatch(name, sectionsByProject[p]) : p \in DOMAIN sectionsByProject}
                    \ {NoId}
    IN  IF projectId = NoId \/ hits = {} THEN NoId ELSE CHOOSE h \in hits : TRUE

matchSectionId(name, projectId, sectionsByProject) ==
    IF projectId = NoId THEN NoId
    ELSE FirstMatch(name, SectionsOf(sectionsByProject, projectId))

\* ensureLabels: existing.has(name.trim().toLowerCase()) for a non-empty name.
LabelExists(name, labels) ==
    \E i \in 1..Len(labels) : NameKey(labels[i].name) = NameKey(name)

\* ------------------------------------------- 4.5 content-similarity guess

IsAlnumLower(c) == c \in Range(Lower) \cup Digits

\* Runs of blanks collapsed to one blank.
RECURSIVE squeeze(_)
squeeze(s) ==
    IF Len(s) < 2 THEN s
    ELSE IF s[1] = " " /\ s[2] = " " THEN squeeze(Tail(s))
    ELSE <<s[1]>> \o squeeze(Tail(s))

\* String(s || "").toLowerCase().replace(/[^a-z0-9]+/g, " ").trim()
normalize(s) ==
    LET low == toLowerCase(s)
        blanked == [i \in 1..Len(low) |-> IF IsAlnumLower(low[i]) THEN low[i] ELSE " "]
    IN  trim(squeeze(blanked))

containsWord(hay, needle) ==
    /\ normalize(hay) # <<>>
    /\ normalize(needle) # <<>>
    /\ includes(normalize(hay), normalize(needle))

SumLenOnce(name, texts) ==
    IF \E i \in 1..Len(texts) : containsWord(texts[i], name) THEN Len(name) ELSE 0

\* The score of one section: name.length for every candidate text holding it.
RECURSIVE SumLen(_, _)
SumLen(name, texts) ==
    IF texts = <<>> THEN 0
    ELSE (IF containsWord(Head(texts), name) THEN Len(name) ELSE 0)
         + SumLen(name, Tail(texts))

\* [title, description, transcription].filter(Boolean)
Candidates(e, transcript) == filterBoolean(<<e.title, e.description, transcript>>)

RECURSIVE BestSectionAtLeast(_, _, _, _)
BestSectionAtLeast(sections, texts, bestId, bestScore) ==
    IF sections = <<>> THEN bestId
    ELSE LET sc == SumLen(Head(sections).name, texts)
         IN  IF sc >= bestScore
             THEN BestSectionAtLeast(Tail(sections), texts, Head(sections).id, sc)
             ELSE BestSectionAtLeast(Tail(sections), texts, bestId, bestScore)

\* The loop over the sections: a later section replaces the best one only with
\* a strictly higher score.
RECURSIVE BestSection(_, _, _, _)
BestSection(sections, texts, bestId, bestScore) ==
    IF sections = <<>> THEN bestId
    ELSE LET sc == SumLen(Head(sections).name, texts)
         IN  IF sc > bestScore
             THEN BestSection(Tail(sections), texts, Head(sections).id, sc)
             ELSE BestSection(Tail(sections), texts, bestId, bestScore)

guessSectionIdFromContent(transcript, e, projectId, refs) ==
    BestSection(SectionsOf(refs.sections, projectId), Candidates(e, transcript), NoId, 0)

\* ------------------------------------------------ 4.4 rule application

\* A rule of voice-note-rules.json; a field the rule does not give is <<>>
\* (None for the priority).
Rule(test, projectName, sectionName, labels, priority, due) ==
    [test |-> test, projectName |-> projectName, sectionName |-> sectionName,
     labels |-> labels, priority |-> priority, due_string |-> due]

\* new RegExp(pattern) throws a SyntaxError ("Invalid group") on "(?" that is
\* not followed by ":", "=", "!" or "<": JavaScript has no inline "(?i)" flag.
InvalidGroup(pat) ==
    \E i \in 1..(Len(pat) - 1) :
        /\ pat[i] = "(" /\ pat[i + 1] = "?"
        /\ (i + 2 > Len(pat) \/ pat[i + 2] \notin {":", "=", "!", "<"})

Count(pat, c) == Cardinality({i \in 1..Len(pat) : pat[i] = c})

\* new RegExp(pattern) does not throw. The patterns of this model are literal
\* text, possibly with groups that make them invalid.
RegExpCompiles(pat) == ~InvalidGroup(pat) /\ Count(pat, "(") = Count(pat, ")")

\* re.test(hay) for a pattern of literal characters: a case-sensitive search.
RegExpTest(pat, hay) == includes(hay, pat)

\* const pat = String(r.test || ""): the script trims it, the extension does not.
PatternOf(i, r) == IF i = "script" THEN trim(r.test) ELSE r.test

\* `${enriched?.title || ""}\n${enriched?.description || ""}\n${transcription || ""}`
Hay(e, transcript) == e.title \o <<"\n">> \o e.description \o <<"\n">> \o transcript

RuleMatchesAlsoEmpty(i, r, e, transcript) ==
    /\ RegExpCompiles(PatternOf(i, r))
    /\ RegExpTest(PatternOf(i, r), Hay(e, transcript))

\* The rule is not skipped: its pattern is non-empty, compiles and matches.
RuleMatches(i, r, e, transcript) ==
    /\ PatternOf(i, r) # <<>>
    /\ RegExpCompiles(PatternOf(i, r))
    /\ RegExpTest(PatternOf(i, r), Hay(e, transcript))

ApplyOneOverwriting(next, r) ==
    [next EXCEPT
        !.projectName = IF TruthyStr(r.projectName) THEN r.projectName ELSE @,
        !.sectionName = IF TruthyStr(r.sectionName) THEN r.sectionName ELSE @,
        !.labels = IF r.labels # <<>> THEN r.labels ELSE @,
        !.priority = IF TruthyNum(r.priority) THEN r.priority ELSE @,
        !.due_string = IF TruthyStr(r.due_string) THEN r.due_string ELSE @]

\* The body of the loop for a matching rule: fill the empty fields, unite the
\* labels.
ApplyOne(next, r) ==
    [next EXCEPT
        !.projectName = IF ~TruthyStr(@) /\ TruthyStr(r.projectName) THEN r.projectName ELSE @,
        !.sectionName = IF ~TruthyStr(@) /\ TruthyStr(r.sectionName) THEN r.sectionName ELSE @,
        !.labels = IF r.labels # <<>> THEN uniq(@ \o r.labels) ELSE @,
        !.priority = IF ~TruthyNum(@) /\ TruthyNum(r.priority) THEN r.priority ELSE @,
        !.due_string = IF ~TruthyStr(@) /\ TruthyStr(r.due_string) THEN r.due_string ELSE @]

RECURSIVE RulesLoopFirstRule(_, _, _, _, _)
RulesLoopFirstRule(i, rules, e, transcript, next) ==
    IF rules = <<>> THEN next
    ELSE IF RuleMatches(i, Head(rules), e, transcript) THEN ApplyOne(next, Head(rules))
    ELSE RulesLoopFirstRule(i, Tail(rules), e, transcript, next)

RECURSIVE RulesLoop(_, _, _, _, _)
RulesLoop(i, rules, e, transcript, next) ==
    IF rules = <<>> THEN next
    ELSE RulesLoop(i, Tail(rules), e, transcript,
                   IF RuleMatches(i, Head(rules), e, transcript)
                   THEN ApplyOne(next, Head(rules)) ELSE next)

\* applyRules({ transcription, enriched, rules }): the pattern is tested against
\* the hay built from the classifier's result, not from the accumulator.
applyRules(i, transcript, e, rules) == RulesLoop(i, rules, e, transcript, e)

\* The rules file: missing, not parseable, or { rules: [...] }.
RulesFile(state, rules) == [state |-> state, rules |-> rules]
NoRulesFile == RulesFile("missing", <<>>)
BadRulesFile == RulesFile("unparseable", <<>>)

\* The extension with its rules switch ignored.
RulesToApplyAnyway(i, enableRules, file) ==
    IF file.state # "ok" THEN <<>> ELSE file.rules

\* Whether the rules are applied at all, and the list that is: the extension
\* asks prefs.enableRules and reads the file inside applyRules; the script
\* applies whatever loadRules returns.
RulesToApply(i, enableRules, file) ==
    IF file.state # "ok" THEN <<>>
    ELSE IF i = "ext" /\ ~enableRules THEN <<>>
    ELSE file.rules

\* ------------------------------------------------------ 4.3 the classifier

\* The text of the model's answer, by its form: "empty" (no text), "json" (the
\* text is JSON for `value`), "wrapped" (prose around one JSON object, `value`),
\* "garbage" (neither). A JSON value is tagged with its kind; an object carries
\* the extracted fields.
JsObject(e) == [kind |-> "object", obj |-> e]
JsOther(kind) == [kind |-> kind, obj |-> EmptyObject]
ModelText(form, value) == [form |-> form, value |-> value]

\* JSON.parse(resp.content?.[0]?.text || "{}"): the value, or "throws".
FirstParse(text) ==
    CASE text.form = "empty" -> JsObject(EmptyObject)
      [] text.form = "json" -> text.value
      [] OTHER -> JsOther("throws")

\* catch { const m = text.match(/\{[\s\S]*\}/); if (m) json = JSON.parse(m[0]) }:
\* json stays {} when nothing matches or the match does not parse.
Recover(text) ==
    IF text.form = "wrapped" THEN text.value ELSE JsObject(EmptyObject)

ParseModelText(text) ==
    IF FirstParse(text).kind = "throws" THEN Recover(text) ELSE FirstParse(text)

\* Reading json.title of null throws a TypeError; so does setting a property
\* of a number, a string or a boolean in strict mode (both files are modules).
\* An array takes the properties like an object.
DefaultsThrowNever(json) == FALSE
DefaultsThrow(json) == json.kind \in {"null", "number", "string", "boolean"}

\* transcription.split("\n")[0].slice(0, 120)
TitleCap == 120
FallbackTitle(transcript) == sliceTo(firstLine(transcript), TitleCap)

smisc == <<"m","i","s","c">>
stasks == <<"t","a","s","k","s">>

\* if (!json.title) json.title = ...; if (!json.category) json.category = "misc"
WithDefaults(e, transcript) ==
    [e EXCEPT !.title = IF TruthyStr(@) THEN @ ELSE FallbackTitle(transcript),
              !.category = IF TruthyStr(@) THEN @ ELSE smisc]

\* clampPriority of the script: parseInt, then into 1..4.
clampPriority(p) ==
    IF p = None THEN None
    ELSE Some(IF p[1] < 1 THEN 1 ELSE IF p[1] > 4 THEN 4 ELSE p[1])

\* ------------------------------------------------------ the task service

\* The projects and sections the task service holds.
RemoteProjects == <<Ref("p1", sWork), Ref("p2", sHome)>>
RemoteSectionsOf(projectId) ==
    IF projectId = "p1" THEN <<Ref("s1", sMeetings), Ref("s2", sBills)>>
    ELSE <<>>

\* The label the service answers a create-label request with.
CreatedLabel(name) == Ref(<<"#">> \o name, name)

\* One effect of a run on the outside, in order: a request to a service with
\* whether it succeeded, a clipboard or file write.
Ev(op, arg, ok) == [op |-> op, arg |-> arg, ok |-> ok]

\* ------------------------------------------------------ 4.2 reference cache

\* The cache time-to-live, six hours, in clock ticks of three hours.
ttlMs == 2

\* todoist-refs.json: whether it exists, its last write time, its content.
CacheFile(exists, mtime, data) == [exists |-> exists, mtime |-> mtime, data |-> data]
NoCacheFile == CacheFile(FALSE, 0, EmptyRefs)

IsFreshInclusive(file, nowT) == file.exists /\ nowT - file.mtime <= ttlMs
IsFreshAlways(file, nowT) == file.exists

\* fs.statSync(file) succeeds and Date.now() - st.mtimeMs < ttlMs
IsFresh(file, nowT) == file.exists /\ nowT - file.mtime < ttlMs

\* try { fs.writeFileSync(file, JSON.stringify(refs)) } catch {}
WriteCache(file, refs, nowT, writable) ==
    IF writable THEN CacheFile(TRUE, nowT, refs) ELSE file

\* What the cache operations work on and leave behind: the snapshot in memory,
\* the cache file, the labels the service holds, the requests made, and the
\* error thrown ("" when none).
St(refs, file, remote, log, err) ==
    [refs |-> refs, file |-> file, remote |-> remote, log |-> log, err |-> err]

getTodoistRefsPartial(st, nowT, writable, o) ==
    IF IsFresh(st.file, nowT)
    THEN [st EXCEPT !.refs = st.file.data, !.err = ""]
    ELSE LET sent == st.log \o <<Ev("GET projects", NoArg, o # "projects"),
                                 Ev("GET labels", NoArg, o # "labels")>>
             got == Refs(IF o = "projects" THEN <<>> ELSE RemoteProjects,
                         IF o = "labels" THEN <<>> ELSE st.remote, NoSections)
         IN  [st EXCEPT !.log = sent, !.refs = got, !.err = "",
                        !.file = WriteCache(@, got, nowT, writable)]

\* getTodoistRefs. o is what the service answers: "ok", or the list whose
\* request fails ("projects", "labels"). Both requests are issued together.
getTodoistRefs(st, nowT, writable, o) ==
    IF IsFresh(st.file, nowT)
    THEN [st EXCEPT !.refs = st.file.data, !.err = ""]
    ELSE LET sent == st.log \o <<Ev("GET projects", NoArg, o # "projects"),
                                 Ev("GET labels", NoArg, o # "labels")>>
             fresh == Refs(RemoteProjects, st.remote, NoSections)
         IN  IF o = "projects" THEN [st EXCEPT !.log = sent, !.err = "Projects"]
             ELSE IF o = "labels" THEN [st EXCEPT !.log = sent, !.err = "Labels"]
             ELSE [st EXCEPT !.log = sent, !.refs = fresh, !.err = "",
                             !.file = WriteCache(@, fresh, nowT, writable)]

NeedsSectionsIfEmpty(sections, projectId) ==
    projectId # NoId /\ SectionsOf(sections, projectId) = <<>>

\* ensureSections fetches: if (!projectId) return; if (refs.sections[projectId]) return
NeedsSections(sections, projectId) ==
    projectId # NoId /\ ~HasSections(sections, projectId)

\* ensureSections that records a failed fetch as an empty list of sections.
ensureSectionsMarksEmpty(st, projectId, nowT, writable, ok) ==
    IF ~NeedsSections(st.refs.sections, projectId) THEN [st EXCEPT !.err = ""]
    ELSE LET got == [st.refs EXCEPT
                        !.sections = WithSections(@, projectId,
                                                  IF ok THEN RemoteSectionsOf(projectId)
                                                  ELSE <<>>)]
         IN  [st EXCEPT !.log = Append(@, Ev("GET sections", projectId, ok)),
                        !.refs = got, !.err = IF ok THEN "" ELSE "Sections",
                        !.file = WriteCache(@, got, nowT, writable)]

\* ensureSections
ensureSections(st, projectId, nowT, writable, ok) ==
    IF ~NeedsSections(st.refs.sections, projectId) THEN [st EXCEPT !.err = ""]
    ELSE IF ~ok
    THEN [st EXCEPT !.log = Append(@, Ev("GET sections", projectId, FALSE)),
                    !.err = "Sections"]
    ELSE LET got == [st.refs EXCEPT
                        !.sections = WithSections(@, projectId, RemoteSectionsOf(projectId))]
         IN  [st EXCEPT !.log = Append(@, Ev("GET sections", projectId, TRUE)),
                        !.refs = got, !.err = "",
                        !.file = WriteCache(@, got, nowT, writable)]

\* The section-prefetch setting: not set, not a number, or a number.
Setting(kind, n) == [kind |-> kind, n |-> n]
Unset == Setting("unset", 0)
NotANumber == Setting("nan", 0)
PrefetchDefault == 6
PrefetchMax == 12

\* maxProjects. The extension: Math.max(1, Math.min(12, parseInt(...) || 6));
\* the script: parseInt(process.env.VOICE_NOTE_SECTIONS_PREFETCH || '6', 10),
\* where NaN makes the loop condition false (0 turns).
maxProjectsOf(i, setting) ==
    IF i = "ext"
    THEN LET n == IF setting.kind = "int" /\ setting.n # 0 THEN setting.n
                  ELSE PrefetchDefault
         IN  IF n < 1 THEN 1 ELSE IF n > PrefetchMax THEN PrefetchMax ELSE n
    ELSE IF setting.kind = "unset" THEN PrefetchDefault
    ELSE IF setting.kind = "nan" THEN 0
    ELSE setting.n

\* prefetchSomeSections: for the first min(maxProjects, projects.length)
\* projects, ensureSections(...).catch(() => {}) unless already present.
\* oks[k] is whether the request for the k-th project succeeds.
RECURSIVE prefetchFrom(_, _, _, _, _, _)
prefetchFrom(st, k, count, nowT, writable, oks) ==
    IF k > count \/ k > Len(st.refs.projects) THEN [st EXCEPT !.err = ""]
    ELSE prefetchFrom(ensureSections(st, st.refs.projects[k].id, nowT, writable, oks[k]),
                      k + 1, count, nowT, writable, oks)

prefetchSomeSections(st, maxProjects, nowT, writable, oks) ==
    prefetchFrom(st, 1, maxProjects, nowT, writable, oks)

\* ensureLabels, from the k-th name on. outs[k] is what the service answers to
\* a create-label request for the k-th name: "ok", "status" (not successful:
\* logged, the loop goes on) or "throw" (the request itself fails: the error
\* leaves the loop; the caller swallows it).
RECURSIVE ensureLabelsFrom(_, _, _, _, _, _)
ensureLabelsFrom(st, names, k, nowT, writable, outs) ==
    IF k > Len(names) THEN [st EXCEPT !.err = ""]
    ELSE LET name == trim(names[k])
         IN  IF name = <<>> \/ LabelExists(name, st.refs.labels)
             THEN ensureLabelsFrom(st, names, k + 1, nowT, writable, outs)
             ELSE IF outs[k] = "throw"
             THEN [st EXCEPT !.log = Append(@, Ev("POST labels", name, FALSE)),
                             !.err = "fetch failed"]
             ELSE IF outs[k] = "status"
             THEN ensureLabelsFrom(
                      [st EXCEPT !.log = Append(@, Ev("POST labels", name, FALSE))],
                      names, k + 1, nowT, writable, outs)
             ELSE LET grown == [st.refs EXCEPT !.labels = Append(@, CreatedLabel(name))]
                  IN  ensureLabelsFrom(
                          [st EXCEPT !.log = Append(@, Ev("POST labels", name, TRUE)),
                                     !.refs = grown,
                                     !.remote = Append(@, CreatedLabel(name)),
                                     !.file = WriteCache(@, grown, nowT, writable)],
                          names, k + 1, nowT, writable, outs)

ensureLabels(st, names, nowT, writable, outs) ==
    ensureLabelsFrom(st, names, 1, nowT, writable, outs)

\* --------------------------------------------------- 4.5 / 4.6 filing

\* The settings a run reads: the default project id (preference or
\* TODOIST_VOICE_PROJECT_ID), the default project name, the rules switch and
\* the section-prefetch count.
Prefs(id, name, rulesOn, prefetch) ==
    [defaultProjectId |-> id, defaultProjectName |-> name,
     enableRules |-> rulesOn, sectionsPrefetch |-> prefetch]

analyzeThrows(text) == DefaultsThrow(ParseModelText(text))

\* analyzeTranscription after a successful answer: parse, defaults, rules.
analyzed(i, transcript, text, enableRules, file) ==
    applyRules(i, transcript, WithDefaults(ParseModelText(text).obj, transcript),
               RulesToApply(i, enableRules, file))

DesiredLabelsNoVoice(labels) == uniq(filterBoolean(labels))

\* Array.from(new Set(["Voice", ...labels].filter(Boolean)))
DesiredLabels(labels) == uniq(filterBoolean(<<sVoice>> \o labels))

ResolveByNameFirst(i, prefs, projectName, projects) ==
    IF i = "ext" /\ matchProjectId(prefs.defaultProjectName, projects) # NoId
    THEN matchProjectId(prefs.defaultProjectName, projects)
    ELSE IF prefs.defaultProjectId # NoId THEN prefs.defaultProjectId
    ELSE matchProjectId(projectName, projects)

ResolveByClassifierFirst(i, prefs, projectName, projects) ==
    IF matchProjectId(projectName, projects) # NoId
    THEN matchProjectId(projectName, projects)
    ELSE IF prefs.defaultProjectId # NoId THEN prefs.defaultProjectId
    ELSE IF i = "ext" THEN matchProjectId(prefs.defaultProjectName, projects)
    ELSE NoId

\* The extension: prefs.defaultProjectId || matchProjectId(prefs.defaultProjectName)
\* || matchProjectId(projectName). The script: TODOIST_VOICE_PROJECT_ID ||
\* matchProjectId(projectName); it has no default project name.
ResolveProject(i, prefs, projectName, projects) ==
    IF prefs.defaultProjectId # NoId THEN prefs.defaultProjectId
    ELSE IF i = "ext" /\ matchProjectId(prefs.defaultProjectName, projects) # NoId
    THEN matchProjectId(prefs.defaultProjectName, projects)
    ELSE matchProjectId(projectName, projects)

\* The exact match, on the snapshot as it is after the first request for the
\* sections, else the guess, on the snapshot as it is after the last one.
SectionFrom(transcript, e, projectId, first, refs) ==
    IF matchSectionId(e.sectionName, projectId, first.sections) # NoId
    THEN matchSectionId(e.sectionName, projectId, first.sections)
    ELSE guessSectionIdFromContent(transcript, e, projectId, refs)

\* The sections of the resolved project, fetched on demand before the exact
\* match; a failure is swallowed. The extension asks always, the script when a
\* section name was extracted.
SectionsFirst(i, st, projectId, e, nowT, writable, ok1) ==
    IF projectId = NoId THEN st
    ELSE IF i = "ext" \/ TruthyStr(e.sectionName)
    THEN ensureSections(st, projectId, nowT, writable, ok1)
    ELSE st

\* The sections as they are before the guess. The script, when the exact match
\* found nothing, asks once more (a no-op when the first request succeeded).
SectionsFetched(i, st, projectId, e, nowT, writable, ok1, ok2) ==
    LET first == SectionsFirst(i, st, projectId, e, nowT, writable, ok1)
    IN  IF projectId = NoId \/ i = "ext" THEN first
        ELSE IF matchSectionId(e.sectionName, projectId, first.refs.sections) # NoId
        THEN first
        ELSE ensureSections(first, projectId, nowT, writable, ok2)

\* "\n\nLinks:\n- " + urls.join("\n- ")
RECURSIVE Links(_)
Links(urls) ==
    IF urls = <<>> THEN <<>>
    ELSE <<"\n", "-", " ">> \o Head(urls) \o Links(Tail(urls))

Described(e, transcript) ==
    (IF TruthyStr(e.description) THEN e.description ELSE transcript)
    \o (IF e.urls # <<>>
        THEN <<"\n", "\n", "L", "i", "n", "k", "s", ":">> \o Links(e.urls)
        ELSE <<>>)

\* The priority of the request: the script clamps, the extension sends none.
BodyPriority(i, p) == IF i = "script" THEN clampPriority(p) ELSE None

\* The body of POST /tasks; a field that is left out is NoId, <<>> or None.
TaskBody(i, transcript, e, projectId, sectionId, desired) ==
    [content |-> trim(IF TruthyStr(e.title) THEN e.title ELSE FallbackTitle(transcript)),
     description |-> Described(e, transcript),
     project_id |-> projectId,
     section_id |-> IF projectId # NoId THEN sectionId ELSE NoId,
     labels |-> desired,
     due_string |-> e.due_string,
     priority |-> BodyPriority(i, e.priority)]
NoBody == TaskBody("ext", <<>>, EmptyObject, NoId, NoId, <<>>)

sInbox == <<"I","n","b","o","x">>
sProject == <<"P","r","o","j","e","c","t">>

NameOf(id, list) ==
    LET hits == {k \in 1..Len(list) : list[k].id = id}
    IN  IF hits = {} THEN <<>> ELSE list[SetMin(hits)].name

WhereBareName(projectId, sectionId, refs) ==
    LET projName == IF projectId = NoId THEN sInbox
                    ELSE NameOf(projectId, refs.projects)
        sectName == IF projectId # NoId /\ sectionId # NoId
                    THEN NameOf(sectionId, SectionsOf(refs.sections, projectId))
                    ELSE <<>>
    IN  IF sectName # <<>> THEN projName \o <<" ", ">", " ">> \o sectName ELSE projName

WhereNeverInbox(projectId, sectionId, refs) ==
    IF projectId = NoId THEN sProject ELSE NameOf(projectId, refs.projects)

\* The destination summary: `${projName} › ${sectName}` or projName. The
\* separator "›" is written ">" here.
Where(projectId, sectionId, refs) ==
    LET projName == IF projectId = NoId THEN sInbox
                    ELSE IF NameOf(projectId, refs.projects) # <<>>
                    THEN NameOf(projectId, refs.projects) ELSE sProject
        sectName == IF projectId # NoId /\ sectionId # NoId
                    THEN NameOf(sectionId, SectionsOf(refs.sections, projectId))
                    ELSE <<>>
    IN  IF sectName # <<>> THEN projName \o <<" ", ">", " ">> \o sectName ELSE projName

\* ------------------------------------------------------------------- state

VARIABLES
    impl,          \* "ext" (record-voice-task.ts) or "script" (voice-note-raycast.js)
    pc,            \* where the run is
    outcome,       \* "running", "ok", or the error that ended the run
    notes,         \* the notifications shown to the user so far
    log,           \* the run's effects on the outside, in order
    clipboard,     \* the shared clipboard
    clipWrites,    \* writes to the clipboard by other programs so far
    sentinel, original,
    baseline, dirNames, stopPolls,
    stopEnd,       \* history: how stop-detection ended
    last, cur, cur2, polls, captured,
    clipStayed,    \* history: the clipboard held the sentinel all through capture
    transcription,
    now,           \* the clock, in ticks of three hours
    cacheWritable, \* whether writes of the cache file succeed
    cacheFile,     \* todoist-refs.json
    remoteLabels,  \* the labels the task service holds
    refs,          \* the snapshot in memory
    prefs, rulesFile, modelText,
    json,          \* the extracted task (analysis.enriched)
    desiredLabels, projectId, sectionId, body, where,
    args, result   \* a function applied on its own: its arguments, its result

vars == <<impl, pc, outcome, notes, log, clipboard, clipWrites, sentinel, original,
          baseline, dirNames, stopPolls, stopEnd, last, cur, cur2, polls, captured,
          clipStayed, transcription, now, cacheWritable, cacheFile,
          remoteLabels, refs, prefs, rulesFile, modelText, json, desiredLabels,
          projectId, sectionId, body, where, args, result>>

Impls == {"ext", "script"}

\* Failed requests and writes one run meets.
MaxFaults == 1

Failures(lg) == Cardinality({k \in 1..Len(lg) : ~lg[k].ok})

\* What other programs put on the clipboard while a run waits: nothing, a short
\* fragment, the first part of a transcript, the whole transcript, white space,
\* another text as long as the white space, and the sentinel of another run.
sPayWater == <<"P", "a", "y", " ", "w", "a", "t", "e", "r">>

ClipValues == {<<>>, sPay, sPayPart, sPayBill, sBlank, sPayWater, SentinelOf("2")}

\* What a listing of the recordings directory can return.
DirListings == SUBSET {"rec0", "rec1"}

\* --------------------------------------------------- 4.1 clipboard handshake

\* The minimum length of a captured value (cur.length >= 8).
MinCaptureLen == 8

\* Stop-detection polls one window holds (600 000 ms / 200 ms in the code).
MaxStopPolls == 2

\* Clipboard.readText() || "" / pbpaste(): what a read of the clipboard returns.
readText == clipboard

AcceptsAnyLength(c, sent, prev) == c # <<>> /\ c # sent /\ c # prev
AcceptsSentinel(c, sent, prev) == c # <<>> /\ c # prev /\ Len(c) >= MinCaptureLen
AcceptsRepeat(c, sent, prev) == c # <<>> /\ c # sent /\ Len(c) >= MinCaptureLen

\* if (cur && cur !== sentinel && cur !== last && cur.length >= 8)
Accepts(c, sent, prev) ==
    c # <<>> /\ c # sent /\ c # prev /\ Len(c) >= MinCaptureLen

SecondChoiceLonger(c1, c2) == IF c2 # <<>> /\ Len(c2) > Len(c1) THEN c2 ELSE c1

\* return cur2 && cur2.length >= cur.length ? cur2 : cur
SecondChoice(c1, c2) == IF c2 # <<>> /\ Len(c2) >= Len(c1) THEN c2 ELSE c1

\* What a run without a transcript reports.
CaptureTimeoutError(i) ==
    IF i = "ext" THEN "No transcription detected"
    ELSE "Timeout waiting for transcription"

NothingCapturedNever(c) == FALSE

\* if (!transcription) throw ... / if (!captured) { notify; throw }
NothingCaptured(c) == c = <<>>

\* captureClipboardTranscription returns captured.trim(); main of the extension
\* passes on what waitForClipboardChangeFromSentinel returned.
TranscriptOf(i, c) == IF i = "script" THEN trim(c) ELSE c

AddedOrRemoved(names, base) == (names \ base) \cup (base \ names)

\* names.find((n) => !baseline.has(n))
Added(names, base) == names \ base

FailureGoesOn(msg, n) ==
    /\ outcome' = msg
    /\ pc' = "submit"
    /\ notes' = notes \o [k \in 1..n |-> "Failure"]

\* The run ends with an error: the extension shows one failure toast (the catch
\* of main); the script notifies once per notify call on the way out.
Failure(msg, n) ==
    /\ outcome' = msg
    /\ pc' = "done"
    /\ notes' = notes \o [k \in 1..n |-> "Failure"]

\* main / captureClipboardTranscription, up to the first wait: save the original
\* clipboard value, write the sentinel, trigger the recorder.
Begin ==
    /\ pc = "start"
    /\ original' = readText
    /\ sentinel' = SentinelOf("1")
    /\ clipboard' = SentinelOf("1")
    /\ log' = log \o <<Ev("clipboard.read", NoArg, TRUE),
                       Ev("clipboard.write", SentinelOf("1"), TRUE),
                       Ev("recorder.toggle", NoArg, TRUE)>>
    /\ notes' = IF impl = "ext" THEN Append(notes, "Recording") ELSE notes
    /\ pc' = "stop"
    /\ UNCHANGED <<impl, outcome, clipWrites, baseline, dirNames, stopPolls, stopEnd,
                   last, cur, cur2, polls, captured, clipStayed, transcription, now,
                   cacheWritable, cacheFile, remoteLabels, refs, prefs, rulesFile,
                   modelText, json, desiredLabels, projectId, sectionId, body, where,
                   args, result>>

\* waitForSuperwhisperStop, its start: without the recordings directory there
\* is no stop detection; with it, the baseline is taken.
StopEnter ==
    /\ pc = "stop"
    /\ \E exists \in BOOLEAN, names \in DirListings :
        IF ~exists
        THEN /\ pc' = "poll"
             /\ stopEnd' = "skipped"
             /\ last' = sentinel
             /\ clipStayed' = (clipboard = sentinel)
             /\ UNCHANGED <<baseline, dirNames>>
        ELSE /\ pc' = "stopPoll"
             /\ baseline' = names
             /\ dirNames' = names
             /\ UNCHANGED <<stopEnd, last, clipStayed>>
    /\ UNCHANGED <<impl, outcome, notes, log, clipboard, clipWrites, sentinel,
                   original, stopPolls, cur, cur2, polls, captured, transcription, now,
                   cacheWritable, cacheFile, remoteLabels, refs, prefs, rulesFile,
                   modelText, json, desiredLabels, projectId, sectionId, body, where,
                   args, result>>

\* One turn of the stop-detection loop: an entry that is not in the baseline
\* ends it, and so does the timeout.
StopPoll ==
    /\ pc = "stopPoll"
    /\ IF stopPolls < MaxStopPolls
       THEN \E names \in DirListings :
                /\ dirNames' = names
                /\ IF Added(names, baseline) = {}
                   THEN /\ stopPolls' = stopPolls + 1
                        /\ UNCHANGED <<pc, stopEnd>>
                   ELSE /\ pc' = "stopped"
                        /\ stopEnd' = "detected"
                        /\ UNCHANGED stopPolls
       ELSE /\ pc' = "stopped"
            /\ stopEnd' = "timeout"
            /\ UNCHANGED <<dirNames, stopPolls>>
    /\ UNCHANGED <<impl, outcome, notes, log, clipboard, clipWrites, sentinel,
                   original, baseline, last, cur, cur2, polls, captured, clipStayed,
                   transcription, now, cacheWritable, cacheFile, remoteLabels, refs,
                   prefs, rulesFile, modelText, json, desiredLabels, projectId,
                   sectionId, body, where, args, result>>

\* waitForSuperwhisperStop returns (after the settle delay when an entry was
\* detected); its locals end with it, and the capture polling starts.
StopReturn ==
    /\ pc = "stopped"
    /\ pc' = "poll"
    /\ last' = sentinel
    /\ clipStayed' = (clipboard = sentinel)
    /\ baseline' = {} /\ dirNames' = {} /\ stopPolls' = 0
    /\ UNCHANGED <<impl, outcome, notes, log, clipboard, clipWrites, sentinel,
                   original, stopEnd, cur, cur2, polls, captured, transcription, now,
                   cacheWritable, cacheFile, remoteLabels, refs, prefs, rulesFile,
                   modelText, json, desiredLabels, projectId, sectionId, body, where,
                   args, result>>

\* Another program (the recorder pasting the transcript, in one or two writes;
\* the user; another run) writes the clipboard.
ClipboardWrite ==
    /\ pc \in {"stop", "stopPoll", "stopped", "poll", "second"}
    /\ clipWrites < MaxClipWrites
    /\ \E v \in ClipValues :
        /\ clipboard' = v
        /\ clipStayed' = IF pc \in {"poll", "second"}
                         THEN clipStayed /\ v = sentinel ELSE clipStayed
    /\ clipWrites' = clipWrites + 1
    /\ UNCHANGED <<impl, pc, outcome, notes, log, sentinel, original, baseline,
                   dirNames, stopPolls, stopEnd, last, cur, cur2, polls, captured,
                   transcription, now, cacheWritable, cacheFile, remoteLabels, refs,
                   prefs, rulesFile, modelText, json, desiredLabels, projectId,
                   sectionId, body, where, args, result>>

\* waitForClipboardChangeFromSentinel: one turn of the polling loop.
Poll ==
    /\ pc = "poll" /\ polls < MaxPolls
    /\ IF Accepts(readText, sentinel, last)
       THEN /\ cur' = readText
            /\ pc' = "second"
            /\ UNCHANGED <<last, polls>>
       ELSE /\ last' = readText
            /\ polls' = polls + 1
            /\ UNCHANGED <<cur, pc>>
    /\ UNCHANGED <<impl, outcome, notes, log, clipboard, clipWrites, sentinel,
                   original, baseline, dirNames, stopPolls, stopEnd, cur2, captured,
                   clipStayed, transcription, now, cacheWritable, cacheFile,
                   remoteLabels, refs, prefs, rulesFile, modelText, json,
                   desiredLabels, projectId, sectionId, body, where, args, result>>

\* waitForClipboardChangeFromSentinel: the window is over, return "".
PollTimeout ==
    /\ pc = "poll" /\ polls >= MaxPolls
    /\ captured' = <<>>
    /\ pc' = "restore"
    /\ UNCHANGED <<impl, outcome, notes, log, clipboard, clipWrites, sentinel,
                   original, baseline, dirNames, stopPolls, stopEnd, last, cur, cur2,
                   polls, clipStayed, transcription, now, cacheWritable, cacheFile,
                   remoteLabels, refs, prefs, rulesFile, modelText, json,
                   desiredLabels, projectId, sectionId, body, where, args, result>>

\* waitForClipboardChangeFromSentinel: the second read, 200 ms after the first.
SecondRead ==
    /\ pc = "second"
    /\ cur2' = readText
    /\ captured' = SecondChoice(cur, readText)
    /\ pc' = "restore"
    /\ UNCHANGED <<impl, outcome, notes, log, clipboard, clipWrites, sentinel,
                   original, baseline, dirNames, stopPolls, stopEnd, last, cur, polls,
                   clipStayed, transcription, now, cacheWritable, cacheFile,
                   remoteLabels, refs, prefs, rulesFile, modelText, json,
                   desiredLabels, projectId, sectionId, body, where, args, result>>

\* The test for a transcript placed before the restore: a run without a
\* transcript fails with the clipboard still holding what it held.
RestoreCapturedOnly ==
    /\ pc = "restore"
    /\ IF NothingCaptured(captured)
       THEN /\ Failure(CaptureTimeoutError(impl), IF impl = "ext" THEN 1 ELSE 2)
            /\ UNCHANGED <<clipboard, log, transcription, stopEnd, clipStayed>>
       ELSE /\ clipboard' = original
            /\ log' = Append(log, Ev("clipboard.write", original, TRUE))
            /\ transcription' = TranscriptOf(impl, captured)
            /\ pc' = "cache"
            /\ stopEnd' = "none"
            /\ UNCHANGED <<outcome, notes, clipStayed>>
    /\ clipWrites' = 0 /\ last' = <<>> /\ cur' = <<>> /\ cur2' = <<>> /\ polls' = 0
    /\ UNCHANGED <<impl, sentinel, original, baseline, dirNames, stopPolls, captured,
                   now, cacheWritable, cacheFile, remoteLabels, refs, prefs, rulesFile,
                   modelText, json, desiredLabels, projectId, sectionId, body, where,
                   args, result>>

\* Restore the original clipboard value, then fail without a transcript or go
\* on with it. A failed restore write rejects in the extension (the catch of
\* main reports it) and is swallowed by pbcopy in the script. The
\* locals of the handshake end here.
Restore ==
    /\ pc = "restore"
    /\ \E ok \in BOOLEAN :
        /\ clipboard' = IF ok THEN original ELSE clipboard
        /\ log' = Append(log, Ev("clipboard.write", original, ok))
        /\ Failures(log') <= MaxFaults
        /\ IF impl = "ext" /\ ~ok
           THEN /\ Failure("Clipboard write failed", 1)
                /\ UNCHANGED <<transcription, stopEnd, clipStayed>>
           ELSE IF NothingCaptured(captured)
           THEN /\ Failure(CaptureTimeoutError(impl), IF impl = "ext" THEN 1 ELSE 2)
                /\ UNCHANGED <<transcription, stopEnd, clipStayed>>
           ELSE /\ transcription' = TranscriptOf(impl, captured)
                /\ pc' = "cache"
                /\ stopEnd' = "none"
                /\ UNCHANGED <<outcome, notes, clipStayed>>
    /\ clipWrites' = 0 /\ last' = <<>> /\ cur' = <<>> /\ cur2' = <<>> /\ polls' = 0
    /\ UNCHANGED <<impl, sentinel, original, baseline, dirNames, stopPolls, captured,
                   now, cacheWritable, cacheFile, remoteLabels, refs, prefs, rulesFile,
                   modelText, json, desiredLabels, projectId, sectionId, body, where,
                   args, result>>

\* ------------------------------------------------------------ the pipeline

\* The clock when the run starts.
NowStart == 4

LabelVoice == Ref(<<"#", "1">>, svoice)

\* A snapshot an earlier run cached: without sections, and with the sections of
\* both projects (the second project has none).
SnapCold == Refs(RemoteProjects, <<LabelVoice>>, NoSections)
SnapWarm ==
    Refs(RemoteProjects, <<LabelVoice>>,
         WithSections(WithSections(NoSections, "p1", RemoteSectionsOf("p1")),
                      "p2", RemoteSectionsOf("p2")))

\* The cache file a run finds: none, one written a tick ago, one written a
\* whole time-to-live ago.
CacheStates ==
    {NoCacheFile, CacheFile(TRUE, NowStart - 1, SnapWarm),
     CacheFile(TRUE, NowStart - ttlMs, SnapCold)}

\* The support directory as a run finds it: the cache file, and whether the
\* file can be written (a directory that cannot be written holds no file).
Disks ==
    {[file |-> f, writable |-> TRUE] : f \in CacheStates}
        \cup {[file |-> NoCacheFile, writable |-> FALSE]}

sHomePad == <<" ", "H", "O", "M", "E", " ">>

\* The settings of a run. The script has no default project name and no rules
\* switch.
PrefsOf(i) ==
    IF i = "ext"
    THEN {Prefs(NoId, <<>>, TRUE, Unset),
          Prefs("p2", swork, TRUE, Setting("int", 1)),
          Prefs(NoId, sHomePad, FALSE, Unset),
          Prefs(NoId, sWorkshop, TRUE, NotANumber)}
    ELSE {Prefs(NoId, <<>>, TRUE, Unset),
          Prefs("p2", <<>>, TRUE, Setting("int", 1)),
          Prefs("p9", <<>>, TRUE, NotANumber)}
NoPrefs == Prefs(NoId, <<>>, FALSE, Unset)

sx == <<"x">>
sInlineBill == <<"(", "?", "i", ")", "b", "i", "l", "l">>
sbill == <<"b", "i", "l", "l">>

\* The rule of the README, with its pattern as documented and with the plain
\* pattern.
RuleReadme == Rule(sInlineBill, sWork, sBills, <<sfinance>>, Some(3), <<>>)
RulePlain == Rule(sbill, sWork, sBills, <<sfinance>>, Some(3), <<>>)

RulesFiles ==
    {NoRulesFile, BadRulesFile, RulesFile("ok", <<RuleReadme>>),
     RulesFile("ok", <<RulePlain>>)}

\* The classifier's answer of scenario A, an answer that names a project, a
\* section and labels, and the JSON text null.
AnswerA ==
    Extracted(sPayTitle, <<>>, stasks, <<>>, <<>>, <<>>, None, stomorrow, <<>>)
AnswerFull ==
    Extracted(sPayTitle, <<>>, stasks, swork, sMeetings, <<svoice, sfinance, sx>>,
              Some(7), <<>>, <<>>)
ModelTexts ==
    {ModelText("json", JsObject(AnswerA)), ModelText("json", JsObject(AnswerFull)),
     ModelText("json", JsOther("null"))}

\* The answers and the rules files a run meets together.
Answers ==
    {[text |-> ModelText("json", JsObject(AnswerA)), file |-> f] : f \in RulesFiles}
        \cup {[text |-> t, file |-> NoRulesFile] : t \in ModelTexts}
NoText == ModelText("empty", JsObject(EmptyObject))

\* The snapshot, the cache file and the service as the cache operations take
\* them.
StNow == St(refs, cacheFile, remoteLabels, log, "")

\* What earlier runs and the file system left in the support directory, fixed
\* when the run first looks there.
CacheFound ==
    /\ pc = "cache"
    /\ \E d \in Disks :
        /\ cacheFile' = d.file
        /\ cacheWritable' = d.writable
    /\ pc' = "refs"
    /\ UNCHANGED <<impl, outcome, notes, log, clipboard, clipWrites, sentinel,
                   original, baseline, dirNames, stopPolls, stopEnd, last, cur, cur2,
                   polls, captured, clipStayed, transcription, now, remoteLabels, refs,
                   prefs, rulesFile, modelText, json, desiredLabels, projectId,
                   sectionId, body, where, args, result>>

\* analyzeTranscription: getTodoistRefs. The extension lets a failure end the
\* run; the script swallows it and goes on without grounding.
LoadRefs ==
    /\ pc = "refs"
    /\ \E o \in {"ok", "projects", "labels"}, p \in PrefsOf(impl) :
        LET st == getTodoistRefs(StNow, now, cacheWritable, o)
        IN  /\ Failures(st.log) <= MaxFaults
            /\ prefs' = p
            /\ log' = st.log
            /\ cacheFile' = st.file
            /\ IF st.err = ""
               THEN /\ refs' = st.refs /\ pc' = "prefetch"
                    /\ UNCHANGED <<outcome, notes>>
               ELSE IF impl = "ext"
               THEN /\ Failure(st.err, 1) /\ UNCHANGED refs
               ELSE /\ pc' = "model" /\ UNCHANGED <<refs, outcome, notes>>
    /\ UNCHANGED <<impl, clipboard, clipWrites, sentinel, original, baseline, dirNames,
                   stopPolls, stopEnd, last, cur, cur2, polls, captured, clipStayed,
                   transcription, now, cacheWritable, remoteLabels, rulesFile,
                   modelText, json, desiredLabels, projectId, sectionId, body, where,
                   args, result>>

\* analyzeTranscription: prefetchSomeSections.
Prefetch ==
    /\ pc = "prefetch"
    /\ \E oks \in [1..Len(refs.projects) -> BOOLEAN] :
        LET st == prefetchSomeSections(StNow, maxProjectsOf(impl, prefs.sectionsPrefetch),
                                       now, cacheWritable, oks)
        IN  /\ Failures(st.log) <= MaxFaults
            /\ log' = st.log
            /\ cacheFile' = st.file
            /\ refs' = st.refs
    /\ pc' = "model"
    /\ UNCHANGED <<impl, outcome, notes, clipboard, clipWrites, sentinel, original,
                   baseline, dirNames, stopPolls, stopEnd, last, cur, cur2, polls,
                   captured, clipStayed, transcription, now, cacheWritable,
                   remoteLabels, prefs, rulesFile, modelText, json, desiredLabels,
                   projectId, sectionId, body, where, args, result>>

\* analyzeTranscription: the model call and what follows it. A failed call and
\* a TypeError while defaulting both leave analyzeTranscription as an error.
Classify ==
    /\ pc = "model"
    /\ \E ok \in BOOLEAN, a \in Answers \cup {[text |-> NoText, file |-> NoRulesFile]} :
      LET text == a.text
          file == a.file
      IN
        /\ ok = (text # NoText)
        /\ log' = Append(log, Ev("POST messages", NoArg, ok))
        /\ Failures(log') <= MaxFaults
        /\ modelText' = text
        /\ rulesFile' = file
        /\ IF ~ok
           THEN /\ Failure("Anthropic error", 1) /\ UNCHANGED json
           ELSE IF analyzeThrows(text)
           THEN /\ Failure("TypeError", 1) /\ UNCHANGED json
           ELSE /\ json' = analyzed(impl, transcription, text, prefs.enableRules, file)
                /\ pc' = "archive"
                /\ UNCHANGED <<outcome, notes>>
    /\ UNCHANGED <<impl, clipboard, clipWrites, sentinel, original, baseline, dirNames,
                   stopPolls, stopEnd, last, cur, cur2, polls, captured, clipStayed,
                   transcription, now, cacheWritable, cacheFile, remoteLabels, refs,
                   prefs, desiredLabels, projectId, sectionId, body, where, args,
                   result>>

toUpperChar(c) ==
    IF \E k \in 1..26 : Lower[k] = c
    THEN Upper[CHOOSE k \in 1..26 : Lower[k] = c]
    ELSE c

\* The directory of the archive file: the category, its first letter in upper
\* case; the script lower-cases the category first.
CatCap(i, category) ==
    LET c == IF i = "script" THEN toLowerCase(category) ELSE category
    IN  IF c = <<>> THEN c ELSE <<toUpperChar(c[1])>> \o Tail(c)

\* main: the archive file. The extension writes it unguarded, the script in a
\* try.
Archive ==
    /\ pc = "archive"
    /\ \E ok \in BOOLEAN :
        /\ log' = Append(log, Ev("archive.write",
                                 [dir |-> CatCap(impl, json.category),
                                  text |-> transcription], ok))
        /\ Failures(log') <= MaxFaults
        /\ IF impl = "ext" /\ ~ok
           THEN Failure("Archive write failed", 1)
           ELSE pc' = "labels" /\ UNCHANGED <<outcome, notes>>
    /\ UNCHANGED <<impl, clipboard, clipWrites, sentinel, original, baseline, dirNames,
                   stopPolls, stopEnd, last, cur, cur2, polls, captured, clipStayed,
                   transcription, now, cacheWritable, cacheFile, remoteLabels, refs,
                   prefs, rulesFile, modelText, json, desiredLabels, projectId,
                   sectionId, body, where, args, result>>

\* maybeAddToTodoist: the labels. The script loads the snapshot again first;
\* an error of ensureLabels is swallowed. The outcome of a request is drawn
\* only where a request can be made, for the names the snapshot lacks.
Labels ==
    /\ pc = "labels"
    /\ \E o \in {"ok", "projects", "labels"},
          outs \in [1..Len(DesiredLabels(json.labels)) -> {"ok", "status", "throw"}] :
        LET st0 == IF impl = "script"
                   THEN getTodoistRefs(StNow, now, cacheWritable, o) ELSE StNow
            st == IF st0.err = ""
                  THEN ensureLabels(st0, DesiredLabels(json.labels), now, cacheWritable, outs)
                  ELSE st0
        IN  /\ impl = "ext" => o = "ok"
            /\ \A k \in DOMAIN outs :
                    LabelExists(DesiredLabels(json.labels)[k], st0.refs.labels)
                        => outs[k] = "ok"
            /\ Failures(st.log) <= MaxFaults
            /\ log' = st.log
            /\ cacheFile' = st.file
            /\ remoteLabels' = st.remote
            /\ refs' = st.refs
            /\ IF st0.err # ""
               THEN Failure(st0.err, 1) /\ UNCHANGED desiredLabels
               ELSE /\ desiredLabels' = DesiredLabels(json.labels)
                    /\ pc' = "resolve"
                    /\ UNCHANGED <<outcome, notes>>
    /\ UNCHANGED <<impl, clipboard, clipWrites, sentinel, original, baseline, dirNames,
                   stopPolls, stopEnd, last, cur, cur2, polls, captured, clipStayed,
                   transcription, now, cacheWritable, prefs, rulesFile, modelText,
                   json, projectId, sectionId, body, where, args, result>>

\* maybeAddToTodoist: the project and the section.
Resolve ==
    /\ pc = "resolve"
    /\ \E ok1 \in BOOLEAN, ok2 \in BOOLEAN :
        LET pid == ResolveProject(impl, prefs, json.projectName, refs.projects)
            first == SectionsFirst(impl, StNow, pid, json, now, cacheWritable, ok1)
            st == SectionsFetched(impl, StNow, pid, json, now, cacheWritable, ok1, ok2)
        IN  /\ Failures(st.log) <= MaxFaults
            /\ log' = st.log
            /\ cacheFile' = st.file
            /\ refs' = st.refs
            /\ projectId' = pid
            /\ sectionId' = IF pid = NoId THEN NoId
                            ELSE SectionFrom(transcription, json, pid, first.refs,
                                             st.refs)
    /\ pc' = "submit"
    /\ UNCHANGED <<impl, outcome, notes, clipboard, clipWrites, sentinel, original,
                   baseline, dirNames, stopPolls, stopEnd, last, cur, cur2, polls,
                   captured, clipStayed, transcription, now, cacheWritable,
                   remoteLabels, prefs, rulesFile, modelText, json, desiredLabels,
                   body, where, args, result>>

\* maybeAddToTodoist: POST /tasks, then the destination summary and the
\* notification.
Submit ==
    /\ pc = "submit"
    /\ body' = TaskBody(impl, transcription, json, projectId, sectionId, desiredLabels)
    /\ \E ok \in BOOLEAN :
        /\ log' = Append(log, Ev("POST tasks", body', ok))
        /\ Failures(log') <= MaxFaults
        /\ IF ok
           THEN /\ where' = Where(projectId, sectionId, refs)
                /\ outcome' = "ok"
                /\ pc' = "done"
                /\ notes' = Append(notes, "Task Added")
           ELSE /\ Failure("Todoist error", 1) /\ UNCHANGED where
    /\ UNCHANGED <<impl, clipboard, clipWrites, sentinel, original, baseline, dirNames,
                   stopPolls, stopEnd, last, cur, cur2, polls, captured, clipStayed,
                   transcription, now, cacheWritable, cacheFile, remoteLabels, refs,
                   prefs, rulesFile, modelText, json, desiredLabels, projectId,
                   sectionId, args, result>>

NoArgs == <<>>
NoResult == <<>>

\* Before a run: nothing read, nothing sent.
Idle ==
    /\ outcome = "running" /\ notes = <<>> /\ log = <<>>
    /\ clipboard = sOld
    /\ clipWrites = 0 /\ sentinel = <<>> /\ original = <<>>
    /\ baseline = {} /\ dirNames = {} /\ stopPolls = 0 /\ stopEnd = "none"
    /\ last = <<>> /\ cur = <<>> /\ cur2 = <<>> /\ polls = 0 /\ captured = <<>>
    /\ clipStayed = TRUE /\ transcription = <<>>
    /\ now = NowStart
    /\ cacheWritable = TRUE
    /\ cacheFile = NoCacheFile
    /\ remoteLabels = <<LabelVoice>>
    /\ refs = EmptyRefs /\ prefs = NoPrefs /\ rulesFile = NoRulesFile
    /\ modelText = NoText /\ json = EmptyObject
    /\ desiredLabels = <<>> /\ projectId = NoId /\ sectionId = NoId
    /\ body = NoBody /\ where = <<>>
    /\ result = NoResult

Init ==
    /\ impl \in Impls
    /\ pc = "start"
    /\ args = NoArgs
    /\ Idle

Next ==
    \/ Begin \/ StopEnter \/ StopPoll \/ StopReturn \/ ClipboardWrite \/ Poll \/ PollTimeout
    \/ SecondRead \/ Restore \/ CacheFound \/ LoadRefs \/ Prefetch \/ Classify \/ Archive
    \/ Labels \/ Resolve \/ Submit

\* One run of the pipeline, from the hotkey to the notification.
Spec == Init /\ [][Next]_vars

\* ------------------------------------------------- applyRules on its own

sBILL == <<"B", "I", "L", "L">>

\* Extracted objects: every combination of set and unset project, section,
\* priority and due date, with no labels, one label, and a label twice.
RuleObjects ==
    {Extracted(sPayTitle, <<>>, stasks, pn, sn, ls, pr, du, <<>>) :
        pn \in {<<>>, sHome}, sn \in {<<>>, sMeetings},
        ls \in {<<>>, <<sfinance>>, <<sx, sx>>},
        pr \in {None, Some(2)}, du \in {<<>>, stomorrow}}

\* A rule that matches the same texts as RulePlain, with another section, a
\* due date and no project or priority.
RulePay == Rule(<<"P", "a", "y">>, <<>>, sMeetings, <<sx, sfinance>>, None, stomorrow)

\* Rules: one that matches and sets all but the due date, one that matches and
\* sets labels, a section and a due date, the README's (which does not compile), one whose
\* pattern does not occur, one without a pattern.
RulePool ==
    {RulePlain,
     RulePay,
     RuleReadme,
     Rule(sBILL, sWork, sBills, <<svoice>>, Some(4), stomorrow),
     Rule(<<>>, sWork, sBills, <<svoice>>, Some(4), stomorrow)}

MaxRules == 2

RuleLists == UNION {[1..n -> RulePool] : n \in 0..MaxRules}

InitRules ==
    /\ impl \in Impls
    /\ pc = "rules"
    /\ args \in [transcription : {sPayBill, sPayWater}, enriched : RuleObjects,
                 rules : RuleLists]
    /\ Idle

ApplyRules ==
    /\ pc = "rules"
    /\ result' = applyRules(impl, args.transcription, args.enriched, args.rules)
    /\ pc' = "ruled"
    /\ UNCHANGED <<impl, outcome, notes, log, clipboard, clipWrites, sentinel,
                   original, baseline, dirNames, stopPolls, stopEnd, last, cur, cur2,
                   polls, captured, clipStayed, transcription, now, cacheWritable,
                   cacheFile, remoteLabels, refs, prefs, rulesFile, modelText, json,
                   desiredLabels, projectId, sectionId, body, where, args>>

NextRules == ApplyRules

\* applyRules applied to an extracted object and a rule list.
SpecRules == InitRules /\ [][NextRules]_vars

\* ------------------------------------------------- name matching on its own

sWo == <<"W", "o">>
sVOICEPad == <<" ", "V", "O", "I", "C", "E">>

MatchNames ==
    {<<>>, sWork, swork, sWorkPad, sWorkshop, sWo, sHome, sHomePad, sBills,
     sMeetings, sVoice, svoice, sVOICEPad, sfinance}

\* Snapshots: the service's projects, and a list where a longer name comes
\* before the name it contains.
MatchSnapshots ==
    {SnapWarm,
     Refs(<<Ref("p3", sWorkshop), Ref("p1", sWork)>>, <<LabelVoice>>,
          WithSections(NoSections, "p1",
                       <<Ref("s3", sWorkshop), Ref("s4", sWorkPad)>>))}

InitMatch ==
    /\ impl \in Impls
    /\ pc = "match"
    /\ args \in [a : MatchNames, b : MatchNames, refs : MatchSnapshots]
    /\ Idle

\* The label of the snapshot that ensureLabels finds for the name.
existingLabel(name, labels) ==
    IF trim(name) # <<>> /\ LabelExists(name, labels)
    THEN labels[SetMin({i \in 1..Len(labels) :
                            NameKey(labels[i].name) = NameKey(name)})].id
    ELSE NoArg

MatchOf(name, snapshot) ==
    [project |-> matchProjectId(name, snapshot.projects),
     section |-> matchSectionId(name, "p1", snapshot.sections),
     label |-> existingLabel(name, snapshot.labels)]

Match ==
    /\ pc = "match"
    /\ result' = [a |-> MatchOf(args.a, args.refs), b |-> MatchOf(args.b, args.refs)]
    /\ pc' = "matched"
    /\ UNCHANGED <<impl, outcome, notes, log, clipboard, clipWrites, sentinel,
                   original, baseline, dirNames, stopPolls, stopEnd, last, cur, cur2,
                   polls, captured, clipStayed, transcription, now, cacheWritable,
                   cacheFile, remoteLabels, refs, prefs, rulesFile, modelText, json,
                   desiredLabels, projectId, sectionId, body, where, args>>

NextMatch == Match

\* The three name matches applied to two names and a snapshot.
SpecMatch == InitMatch /\ [][NextMatch]_vars

\* ---------------------------------------------- ensureSections on its own

\* Calls of ensureSections on one snapshot.
MaxCalls == 3

InitSections ==
    /\ impl \in Impls
    /\ pc = "sections"
    /\ args = <<>>
    /\ outcome = "running" /\ notes = <<>> /\ log = <<>>
    /\ clipboard = sOld
    /\ clipWrites = 0 /\ sentinel = <<>> /\ original = <<>>
    /\ baseline = {} /\ dirNames = {} /\ stopPolls = 0 /\ stopEnd = "none"
    /\ last = <<>> /\ cur = <<>> /\ cur2 = <<>> /\ polls = 0 /\ captured = <<>>
    /\ clipStayed = TRUE /\ transcription = <<>>
    /\ now = NowStart
    /\ cacheWritable \in BOOLEAN
    /\ cacheFile = IF cacheWritable THEN CacheFile(TRUE, NowStart - 1, SnapCold)
                   ELSE NoCacheFile
    /\ remoteLabels = <<LabelVoice>>
    /\ refs = SnapCold /\ prefs = NoPrefs /\ rulesFile = NoRulesFile
    /\ modelText = NoText /\ json = EmptyObject
    /\ desiredLabels = <<>> /\ projectId = NoId /\ sectionId = NoId
    /\ body = NoBody /\ where = <<>>
    /\ result = NoResult

\* One call of ensureSections; args lists the calls made so far, result is
\* the error the last call threw ("" when none).
EnsureSections ==
    /\ pc = "sections"
    /\ Len(args) < MaxCalls
    /\ \E p \in {NoId, "p1", "p2"}, ok \in BOOLEAN :
        LET st == ensureSections(StNow, p, now, cacheWritable, ok)
        IN  /\ args' = Append(args, p)
            /\ result' = <<st.err>>
            /\ log' = st.log
            /\ refs' = st.refs
            /\ cacheFile' = st.file
    /\ UNCHANGED <<impl, pc, outcome, notes, clipboard, clipWrites, sentinel, original,
                   baseline, dirNames, stopPolls, stopEnd, last, cur, cur2, polls,
                   captured, clipStayed, transcription, now, cacheWritable,
                   remoteLabels, prefs, rulesFile, modelText, json, desiredLabels,
                   projectId, sectionId, body, where>>

\* Names in one call of ensureLabels.
MaxNames == 3

sFinancePad == <<" ", "F", "i", "n", "a", "n", "c", "e">>

\* Requested names: one the snapshot has in another case, two spellings of one
\* new name, another new name, and a blank one.
LabelPool == {sVoice, sfinance, sFinancePad, sx, <<" ">>}

NameLists == UNION {[1..n -> LabelPool] : n \in 1..MaxNames}

\* One call of ensureLabels on the snapshot as loaded; desiredLabels holds the
\* requested names, result the error the call threw ("" when none). An answer
\* is drawn only for the names a request can be made for.
EnsureLabels ==
    /\ pc = "sections"
    /\ args = <<>>
    /\ \E names \in NameLists :
       \E outs \in [1..Len(names) -> {"ok", "status", "throw"}] :
        LET st == ensureLabels(StNow, names, now, cacheWritable, outs)
        IN  /\ \A k \in DOMAIN outs :
                    (trim(names[k]) = <<>> \/ LabelExists(names[k], refs.labels))
                        => outs[k] = "ok"
            /\ desiredLabels' = names
            /\ result' = <<st.err>>
            /\ log' = st.log
            /\ refs' = st.refs
            /\ cacheFile' = st.file
            /\ remoteLabels' = st.remote
    /\ pc' = "labelled"
    /\ UNCHANGED <<impl, outcome, notes, clipboard, clipWrites, sentinel, original,
                   baseline, dirNames, stopPolls, stopEnd, last, cur, cur2, polls,
                   captured, clipStayed, transcription, now, cacheWritable, prefs,
                   rulesFile, modelText, json, projectId, sectionId, body, where, args>>

NextSections == EnsureSections \/ EnsureLabels

\* ensureSections called again and again on one snapshot.
SpecSections == InitSections /\ [][NextSections]_vars

\* ------------------------------------------- the section guess on its own

sLoud == <<"U", "P", "C", "O", "M", "I", "N", "G", "-", "-", "B", "i", "l", "l", "s", ",",
           " ", "m", "e", "e", "t", "i", "n", "g", "s">>
sMarks == <<"!", "?">>
sPayPad == <<"P", "a", "y", " ">>

\* Candidate texts: none, a sentence, a text in capitals with punctuation, and
\* a text that normalizes to nothing.
GuessTexts == {<<>>, sPayBill, sLoud, sMarks}

\* Section lists: none, the service's, two names of equal length that both
\* occur in the sentence (in either order), and a list with a name that
\* normalizes to nothing.
GuessSections ==
    {<<>>,
     RemoteSectionsOf("p1"),
     <<Ref("s5", sbill), Ref("s6", sPayPad)>>,
     <<Ref("s6", sPayPad), Ref("s5", sbill)>>,
     <<Ref("s7", sMarks), Ref("s8", sBills), Ref("s9", sMeetings)>>}

InitGuess ==
    /\ impl \in Impls
    /\ pc = "guess"
    /\ args \in [title : GuessTexts, description : GuessTexts,
                 transcription : GuessTexts, sections : GuessSections]
    /\ Idle

Guess ==
    /\ pc = "guess"
    /\ result' =
        <<guessSectionIdFromContent(
            args.transcription,
            [EmptyObject EXCEPT !.title = args.title, !.description = args.description],
            "p1",
            Refs(RemoteProjects, <<>>, WithSections(NoSections, "p1", args.sections)))>>
    /\ pc' = "guessed"
    /\ UNCHANGED <<impl, outcome, notes, log, clipboard, clipWrites, sentinel,
                   original, baseline, dirNames, stopPolls, stopEnd, last, cur, cur2,
                   polls, captured, clipStayed, transcription, now, cacheWritable,
                   cacheFile, remoteLabels, refs, prefs, rulesFile, modelText, json,
                   desiredLabels, projectId, sectionId, body, where, args>>

NextGuess == Guess

\* guessSectionIdFromContent applied to candidate texts and a section list.
SpecGuess == InitGuess /\ [][NextGuess]_vars

\* ------------------------------------------------ the handshake's progress

\* The run's own steps of the handshake are continuations of an awaited timer
\* or read: the event loop runs each one that stays enabled. Writes by other
\* programs are under no such obligation.
SpecLive ==
    /\ Spec
    /\ WF_vars(Begin) /\ WF_vars(StopEnter) /\ WF_vars(StopPoll) /\ WF_vars(StopReturn)
    /\ WF_vars(Poll) /\ WF_vars(PollTimeout) /\ WF_vars(SecondRead) /\ WF_vars(Restore)

\* ------------------------------------------- maybeAddToTodoist on its own

sMeetingsPad == <<" ", "M", "E", "E", "T", "I", "N", "G", "S", " ">>

\* What analyzeTranscription hands to maybeAddToTodoist: with and without a
\* project name, a section name that is a section's name as stored, in another
\* case with padding, the name of no section, or absent, and with and without
\* a description that names the other section.
FiledObjects ==
    {Extracted(sPayTitle, d, stasks, pn, sn, <<sfinance>>, Some(7), stomorrow, <<>>) :
        d \in {<<>>, sBills}, pn \in {<<>>, swork},
        sn \in {<<>>, sMeetings, sMeetingsPad, sWorkshop}}

\* maybeAddToTodoist is entered after the labels, with a transcript that names
\* no section or both, and a snapshot with or without the sections.
InitFiling ==
    /\ impl \in Impls
    /\ pc = "resolve"
    /\ args = NoArgs
    /\ outcome = "running" /\ notes = <<>> /\ log = <<>>
    /\ clipboard = sOld
    /\ clipWrites = 0 /\ sentinel = <<>> /\ original = <<>>
    /\ baseline = {} /\ dirNames = {} /\ stopPolls = 0 /\ stopEnd = "none"
    /\ last = <<>> /\ cur = <<>> /\ cur2 = <<>> /\ polls = 0
    /\ transcription \in {sPayBill, sLoud}
    /\ captured = transcription
    /\ clipStayed = FALSE
    /\ now = NowStart
    /\ cacheWritable = TRUE
    /\ refs \in {SnapCold, SnapWarm}
    /\ cacheFile = CacheFile(TRUE, NowStart - 1, refs)
    /\ remoteLabels = <<LabelVoice>>
    /\ prefs \in PrefsOf(impl) /\ rulesFile = NoRulesFile
    /\ modelText = NoText /\ json \in FiledObjects
    /\ desiredLabels = DesiredLabels(json.labels)
    /\ projectId = NoId /\ sectionId = NoId
    /\ body = NoBody /\ where = <<>>
    /\ result = NoResult

NextFiling == Resolve \/ Submit

\* The project, the section and the request, for every combination of
\* settings, extracted names and snapshot.
SpecFiling == InitFiling /\ [][NextFiling]_vars

\* ------------------------------------------ the cache file across runs

\* Calls on the cache file, over all the runs of one history.
MaxOps == 6

\* pc is "idle" between runs and "held" while a run holds a snapshot; args
\* lists the calls made so far; result holds the clock reading at which the
\* projects and the labels of the snapshot, and of the cache file when it is
\* written, were fetched from the service.
InitCache ==
    /\ impl \in Impls
    /\ pc = "idle"
    /\ args = <<>>
    /\ outcome = "running" /\ notes = <<>> /\ log = <<>>
    /\ clipboard = sOld
    /\ clipWrites = 0 /\ sentinel = <<>> /\ original = <<>>
    /\ baseline = {} /\ dirNames = {} /\ stopPolls = 0 /\ stopEnd = "none"
    /\ last = <<>> /\ cur = <<>> /\ cur2 = <<>> /\ polls = 0 /\ captured = <<>>
    /\ clipStayed = TRUE /\ transcription = <<>>
    /\ now = NowStart
    /\ cacheWritable \in BOOLEAN
    /\ cacheFile = NoCacheFile
    /\ remoteLabels = <<LabelVoice>>
    /\ refs = EmptyRefs /\ prefs = NoPrefs /\ rulesFile = NoRulesFile
    /\ modelText = NoText /\ json = EmptyObject
    /\ desiredLabels = <<>> /\ projectId = NoId /\ sectionId = NoId
    /\ body = NoBody /\ where = <<>>
    /\ result = <<>>

\* A run starts, at once or a clock tick after the call before, and calls
\* getTodoistRefs.
GetSnapshot ==
    /\ pc \in {"idle", "held"}
    /\ Len(args) < MaxOps
    /\ \E dt \in 0..1, o \in {"ok", "projects", "labels"} :
        LET st == getTodoistRefs(StNow, now + dt, cacheWritable, o)
        IN  /\ Failures(st.log) <= MaxFaults
            /\ now' = now + dt
            /\ log' = st.log
            /\ cacheFile' = st.file
            /\ IF st.err = ""
               THEN /\ refs' = st.refs /\ pc' = "held"
                    /\ result' = IF st.log = log THEN result ELSE <<now + dt>>
               ELSE /\ refs' = EmptyRefs /\ pc' = "idle"
                    /\ UNCHANGED result
    /\ args' = Append(args, "getTodoistRefs")
    /\ UNCHANGED <<impl, outcome, notes, clipboard, clipWrites, sentinel, original,
                   baseline, dirNames, stopPolls, stopEnd, last, cur, cur2, polls,
                   captured, clipStayed, transcription, cacheWritable, remoteLabels,
                   prefs, rulesFile, modelText, json, desiredLabels, projectId,
                   sectionId, body, where>>

\* The run that holds the snapshot calls ensureSections for a project.
SectionsInRun ==
    /\ pc = "held"
    /\ Len(args) < MaxOps
    /\ \E p \in {"p1", "p2"}, ok \in BOOLEAN :
        LET st == ensureSections(StNow, p, now, cacheWritable, ok)
        IN  /\ Failures(st.log) <= MaxFaults
            /\ log' = st.log
            /\ refs' = st.refs
            /\ cacheFile' = st.file
    /\ args' = Append(args, "ensureSections")
    /\ UNCHANGED <<impl, pc, outcome, notes, clipboard, clipWrites, sentinel, original,
                   baseline, dirNames, stopPolls, stopEnd, last, cur, cur2, polls,
                   captured, clipStayed, transcription, now, cacheWritable,
                   remoteLabels, prefs, rulesFile, modelText, json, desiredLabels,
                   projectId, sectionId, body, where, result>>

\* The run that holds the snapshot calls ensureLabels with one name.
LabelsInRun ==
    /\ pc = "held"
    /\ Len(args) < MaxOps
    /\ \E name \in {sfinance, sx}, out \in {"ok", "status", "throw"} :
        LET st == ensureLabels(StNow, <<name>>, now, cacheWritable, <<out>>)
        IN  /\ Failures(st.log) <= MaxFaults
            /\ log' = st.log
            /\ refs' = st.refs
            /\ cacheFile' = st.file
            /\ remoteLabels' = st.remote
    /\ args' = Append(args, "ensureLabels")
    /\ UNCHANGED <<impl, pc, outcome, notes, clipboard, clipWrites, sentinel, original,
                   baseline, dirNames, stopPolls, stopEnd, last, cur, cur2, polls,
                   captured, clipStayed, transcription, now, cacheWritable, prefs,
                   rulesFile, modelText, json, desiredLabels, projectId, sectionId,
                   body, where, result>>

NextCache == GetSnapshot \/ SectionsInRun \/ LabelsInRun

\* Runs one after another on one cache file.
SpecCache == InitCache /\ [][NextCache]_vars

\* ------------------------------------------------------------------ claims

Sent(op) == {k \in 1..Len(log) : log[k].op = op}

\* C1: the value a capture poll accepts as the candidate is non-empty, differs
\* from the run's sentinel, differs from the value the previous poll read (the
\* sentinel before the first poll) and is at least 8 long.
C1_AcceptedCandidate ==
    /\ (pc = "poll" /\ polls = 0) => last = sentinel
    /\ pc = "second" =>
        /\ cur # <<>>
        /\ cur # sentinel
        /\ cur # last
        /\ Len(cur) >= 8

\* A short fragment was read and refused, then the transcript was accepted.
C1_Witness == pc = "second" /\ last = sPay /\ cur = sPayBill

\* C2: a run whose clipboard held the sentinel all through the capture window
\* ends in the capture-timeout failure, without a call of the classifier, an
\* archive file or a task-creation request.
C2_NeverChanged ==
    (pc = "done" /\ clipStayed) =>
        /\ outcome = CaptureTimeoutError(impl)
        /\ Sent("POST messages") = {}
        /\ Sent("archive.write") = {}
        /\ Sent("POST tasks") = {}

\* C3: at most one task-creation request is sent; it comes after the restore
\* of the clipboard, the successful model call, the label requests and the
\* section requests, and nothing is requested after it; a run that an earlier
\* error ended sent none.
C3_SubmissionLast ==
    /\ Cardinality(Sent("POST tasks")) <= 1
    /\ \A k \in Sent("POST tasks") :
        /\ k = Len(log)
        /\ pc = "done"
        /\ outcome \in {"ok", "Todoist error"}
        /\ \E j \in 1..(k - 1) : log[j].op = "POST messages" /\ log[j].ok
        /\ \E j \in 1..(k - 1) : log[j] = Ev("clipboard.write", original, log[j].ok)
        /\ log[k].arg.labels = desiredLabels
    /\ (pc = "done" /\ outcome \notin {"ok", "Todoist error"}) => Sent("POST tasks") = {}

\* A task was submitted after a label was created and sections were fetched.
C3_Witness ==
    /\ outcome = "ok"
    /\ Sent("POST tasks") = {Len(log)}
    /\ Sent("POST labels") # {}
    /\ Sent("GET sections") # {}

\* A step in which getTodoistRefs is called: by analyzeTranscription, and by
\* maybeAddToTodoist of the script.
CallsGetRefs ==
    \/ pc = "refs" /\ pc' # "refs"
    \/ pc = "labels" /\ impl = "script" /\ pc' # "labels"

NewRequests == SubSeq(log', Len(log) + 1, Len(log'))

C5_ClassifyTotal ==
    (\E k \in Sent("POST messages") : log[k].ok) =>
        /\ outcome # "TypeError"
        /\ pc = "archive" => (json.title # <<>> /\ json.category # <<>>)

\* C7: scenario A. With the README's rule, the transcript "Pay the electric
\* bill tomorrow" and a classifier answer without project, section, priority
\* and labels and with due "tomorrow", the submitted task has the labels Voice
\* and finance, the project Work, the section Upcoming bills, priority 3 and
\* due "tomorrow".
C7_ScenarioA ==
    \A k \in Sent("POST tasks") :
        ( /\ transcription = sPayBill
          /\ modelText = ModelText("json", JsObject(AnswerA))
          /\ rulesFile = RulesFile("ok", <<RuleReadme>>)
          /\ prefs.enableRules
          /\ prefs.defaultProjectId = NoId /\ prefs.defaultProjectName = <<>>
          /\ Failures(log) = 0
          /\ refs.projects = RemoteProjects
          /\ HasSections(refs.sections, "p1") )
        => /\ Range(log[k].arg.labels) = {sVoice, sfinance}
           /\ log[k].arg.project_id = "p1"
           /\ log[k].arg.section_id = "s2"
           /\ log[k].arg.priority = <<3>>
           /\ log[k].arg.due_string = stomorrow

\* The first project of the snapshot with the name, ignoring case and
\* surrounding white space.
Named(name) ==
    {k \in 1..Len(refs.projects) :
        name # <<>> /\ toLowerCase(trim(refs.projects[k].name)) = toLowerCase(trim(name))}
IdOfNamed(name) ==
    IF Named(name) = {} THEN NoId
    ELSE refs.projects[CHOOSE k \in Named(name) : \A j \in Named(name) : k <= j].id

\* C8: the resolved project is the configured identifier when there is one;
\* else the project the configured name matches; else the project the
\* classifier's name matches; else none.
C8_ProjectPrecedence ==
    pc = "submit" =>
        projectId =
            IF prefs.defaultProjectId # NoId THEN prefs.defaultProjectId
            ELSE IF IdOfNamed(prefs.defaultProjectName) # NoId
            THEN IdOfNamed(prefs.defaultProjectName)
            ELSE IdOfNamed(json.projectName)

\* The configured name decided against a classifier that named another
\* project.
C8_Witness ==
    /\ pc = "submit"
    /\ prefs.defaultProjectId = NoId
    /\ prefs.defaultProjectName = sHomePad
    /\ json.projectName = swork
    /\ refs.projects = RemoteProjects
    /\ projectId = "p2"

\* C10: the labels of a submitted task contain Voice, and no two of them are
\* equal ignoring case.
C10_LabelsDistinct ==
    \A k \in Sent("POST tasks") :
        LET ls == log[k].arg.labels
        IN  /\ \E i \in 1..Len(ls) : ls[i] = sVoice
            /\ \A i, j \in 1..Len(ls) :
                    i # j => toLowerCase(ls[i]) # toLowerCase(ls[j])

MatchingRules ==
    {k \in 1..Len(args.rules) :
        RuleMatches(impl, args.rules[k], args.enriched, args.transcription)}

SameName(a, b) == toLowerCase(trim(a)) = toLowerCase(trim(b))

\* The ids of the entries of a list whose names equal the name after trimming
\* and lower-casing.
Equal(name, list) == {list[k].id : k \in {j \in 1..Len(list) : SameName(list[j].name, name)}}

\* C9: two names that are equal after trimming and lower-casing match the same
\* project, section and label; what a name matches is an entry whose name
\* equals it in that way, and a name that equals no entry matches nothing.
C9_ExactMatching ==
    pc = "matched" =>
        /\ SameName(args.a, args.b) => result.a = result.b
        /\ \A r \in {result.a, result.b} :
            LET name == IF r = result.a THEN args.a ELSE args.b
            IN  /\ r.project # NoId => r.project \in Equal(name, args.refs.projects)
                /\ r.section # NoId =>
                        r.section \in Equal(name, SectionsOf(args.refs.sections, "p1"))
                /\ r.label # NoArg => r.label \in Equal(name, args.refs.labels)
        /\ Equal(args.a, args.refs.projects) = {} => result.a.project = NoId
        /\ Equal(args.a, SectionsOf(args.refs.sections, "p1")) = {} =>
                result.a.section = NoId
        /\ Equal(args.a, args.refs.labels) = {} => result.a.label = NoArg
        /\ (args.a # <<>> /\ Equal(args.a, args.refs.projects) # {}) =>
                result.a.project # NoId

\* "work" and " Work " matched the same project although "Workshop" comes
\* first in the list, and "Wo" matched nothing.
C9_Witness ==
    /\ pc = "matched"
    /\ args.a = swork /\ args.b = sWorkPad
    /\ args.refs.projects[1].name = sWorkshop
    /\ result.a.project = "p1" /\ result.b.project = "p1"
    /\ result.a.section = "s4"

\* The successful section requests for a project.
Fetched(p) == {k \in Sent("GET sections") : log[k].arg = p /\ log[k].ok}

\* C11: a call of ensureSections for a project whose key the snapshot holds,
\* be its list empty, requests nothing and changes neither the snapshot nor
\* the cache file; however often it is called, one snapshot sees one
\* successful request per project.
C11_EnsureIdempotent ==
    [][(pc = "sections" /\ args' # args) =>
        LET p == args'[Len(args')]
        IN  /\ (p = NoId \/ p \in DOMAIN refs.sections) =>
                    (log' = log /\ refs' = refs /\ cacheFile' = cacheFile
                     /\ result' = <<"">>)
            /\ \A q \in {"p1", "p2"} :
                    Cardinality({k \in 1..Len(log') :
                        log'[k] = Ev("GET sections", q, TRUE)}) <= 1
            /\ \A q \in {"p1", "p2"} :
                    q \in DOMAIN refs'.sections <=>
                        \E k \in 1..Len(log') : log'[k] = Ev("GET sections", q, TRUE)]_vars

\* The project without sections was asked for three times; the first call
\* fetched its empty list, the others did nothing.
C11_Witness ==
    /\ pc = "sections"
    /\ args = <<"p2", "p2", "p2">>
    /\ "p2" \in DOMAIN refs.sections /\ refs.sections["p2"] = <<>>
    /\ Len(log) = 1 /\ Cardinality(Fetched("p2")) = 1

\* C12: scenario D. For every name of the final label set that no label of the
\* cached snapshot matches (the cached snapshots here hold the one label
\* "voice"), a create-label request is sent before the task-creation request;
\* when it succeeded, the snapshot in memory holds that label once at the
\* submission, and has grown by one label per successful request.
C12_ScenarioD ==
    \A k \in Sent("POST tasks") :
        /\ Len(refs.labels) =
                1 + Cardinality({j \in Sent("POST labels") : log[j].ok})
        /\ \A i \in 1..Len(desiredLabels) :
            LET n == trim(desiredLabels[i])
            IN  (n # <<>> /\ ~SameName(n, svoice)) =>
                    \E j \in 1..(k - 1) :
                        /\ log[j].op = "POST labels"
                        /\ log[j].arg = n
                        /\ log[j].ok =>
                            Cardinality({m \in 1..Len(refs.labels) :
                                            refs.labels[m].name = n}) = 1

\* C13: scenario B. Without a configured project identifier, and with neither
\* the configured name nor the classifier's name matching a project of the
\* snapshot, the task-creation request has no project_id and no section_id, and
\* the destination summary is "Inbox".
C13_ScenarioB ==
    \A k \in Sent("POST tasks") :
        ( /\ prefs.defaultProjectId = NoId
          /\ IdOfNamed(prefs.defaultProjectName) = NoId
          /\ IdOfNamed(json.projectName) = NoId )
        => /\ log[k].arg.project_id = NoId
           /\ log[k].arg.section_id = NoId
           /\ log[k].ok => where = <<"I", "n", "b", "o", "x">>

\* A run whose configured name matches no project filed its task to the Inbox.
C13_Witness ==
    /\ outcome = "ok"
    /\ prefs.defaultProjectId = NoId
    /\ prefs.defaultProjectName = sWorkshop
    /\ json.projectName = <<>>
    /\ refs.projects = RemoteProjects
    /\ body.project_id = NoId
    /\ where = sInbox

\* The needle is a non-empty substring of the hay.
Occurs(needle, hay) ==
    /\ needle # <<>>
    /\ \E i \in 1..(Len(hay) - Len(needle) + 1) :
            SubSeq(hay, i, i + Len(needle) - 1) = needle

\* The sections whose normalized name occurs in a normalized candidate text.
Occurring ==
    {k \in 1..Len(args.sections) :
        \E t \in {args.title, args.description, args.transcription} :
            Occurs(normalize(args.sections[k].name), normalize(t))}

\* C14: the guess returns the id of a section whose normalized name occurs in
\* a normalized candidate text, and no section when there is none; it is a
\* function of the texts and the section list alone.
C14_GuessOccurs ==
    pc = "guessed" =>
        /\ Occurring = {} => result = <<NoId>>
        /\ result # <<NoId>> =>
                \E k \in Occurring : result = <<args.sections[k].id>>
        /\ result = <<guessSectionIdFromContent(
                        args.transcription,
                        [EmptyObject EXCEPT !.title = args.title,
                                            !.description = args.description],
                        "p1",
                        Refs(<<>>, <<>>, [q \in {"p1"} |-> args.sections]))>>

\* The capitals-and-punctuation text named two sections of a list whose first
\* section normalizes to nothing; one of the two was returned.
C14_Witness ==
    /\ pc = "guessed"
    /\ args.transcription = sLoud /\ args.title = <<>> /\ args.description = sMarks
    /\ Len(args.sections) = 3
    /\ Occurring = {2, 3}
    /\ result = <<"s8">>

\* The failure notifications shown so far.
FailureNotes == {k \in 1..Len(notes) : notes[k] = "Failure"}

\* C15: a run that an error ended has shown exactly one failure notification.
C15_OneNotification ==
    (pc = "done" /\ outcome # "ok") => Cardinality(FailureNotes) = 1

\* The failed requests for the projects or the labels.
RefsFailed ==
    {k \in Sent("GET projects") \cup Sent("GET labels") : ~log[k].ok}

\* C16: a run in which the request for the projects or the labels failed calls
\* the model never, writes no archive file and sends no task-creation request.
C16_RefsFailureFatal ==
    RefsFailed # {} =>
        /\ Sent("POST messages") = {}
        /\ Sent("archive.write") = {}
        /\ Sent("POST tasks") = {}

\* A request for the projects or the labels failed in this step.
FetchFailedNow ==
    \E k \in 1..Len(NewRequests) :
        NewRequests[k].op \in {"GET projects", "GET labels"} /\ ~NewRequests[k].ok

\* C17: a call of getTodoistRefs in which the request for the projects or for
\* the labels fails throws, hands no snapshot to its caller and leaves the
\* cache file as it was; the next call of the run requests both lists again.
C17_NoPartialSnapshot ==
    [][(CallsGetRefs /\ FetchFailedNow) =>
            /\ refs' = refs
            /\ cacheFile' = cacheFile
            /\ remoteLabels' = remoteLabels
            /\ Len(NewRequests) = 2
            /\ (impl = "ext" \/ pc = "labels") =>
                    (pc' = "done" /\ outcome' \in {"Projects", "Labels"})
            /\ (impl = "script" /\ pc = "refs") => pc' = "model"]_vars
    /\ [][(pc = "labels" /\ impl = "script" /\ pc' # "labels" /\ RefsFailed # {}) =>
            /\ Len(NewRequests) >= 2
            /\ NewRequests[1].op = "GET projects"
            /\ NewRequests[2].op = "GET labels"]_vars

\* The request for the labels failed over a stale cache file: the run ended
\* with that error, without a snapshot, the file as old as before.
C17_Witness ==
    /\ pc = "done" /\ outcome = "Labels"
    /\ cacheFile = CacheFile(TRUE, NowStart - ttlMs, SnapCold)
    /\ refs = EmptyRefs
    /\ \E k \in Sent("GET projects") : log[k].ok

\* C18: without a captured candidate the classifier is never called; with one,
\* the transcript the classifier, the archive and the task filer work on is the
\* captured value without its leading and trailing white space.
C18_TrimmedTranscript ==
    /\ (pc = "done" /\ captured = <<>>) => Sent("POST messages") = {}
    /\ pc \in {"cache", "refs", "prefetch", "model", "archive", "labels", "resolve",
               "submit"} => transcription = trim(captured)
    /\ \A k \in Sent("archive.write") : log[k].arg.text = trim(captured)
    /\ \A k \in Sent("POST tasks") :
            json.description = <<>> => log[k].arg.description = trim(captured)

\* C19: a failed restore of the clipboard is never the error of the run: a run
\* with a transcript goes on to the classifier, a run without one ends in the
\* capture-timeout failure.
C19_RestoreBestEffort ==
    (\E k \in Sent("clipboard.write") : ~log[k].ok) =>
        /\ outcome # "Clipboard write failed"
        /\ (pc = "done" /\ captured = <<>>) => outcome = CaptureTimeoutError(impl)
        /\ (pc = "done" /\ captured # <<>>) => Sent("POST messages") # {}

\* C20: a task-creation request carries a priority exactly when the extracted
\* task has one, and the value is the extracted priority brought into 1..4.
C20_PriorityClamped ==
    \A k \in Sent("POST tasks") :
        LET p == log[k].arg.priority
        IN  /\ p = <<>> <=> json.priority = <<>>
            /\ p # <<>> =>
                /\ p[1] \in 1..4
                /\ json.priority[1] \in 1..4 => p[1] = json.priority[1]
                /\ json.priority[1] > 4 => p[1] = 4
                /\ json.priority[1] < 1 => p[1] = 1

\* C21: a failed create-label request (status or thrown error) blocks nothing.
\* Once the labels step is over, every non-empty name of the final label set
\* either has a label in the snapshot or was asked for with a create-label
\* request; a run whose only failures are create-label requests ends with the
\* task submitted; and the labels field of the task-creation request is the
\* final label set.
C21_LabelFailuresTolerated ==
    /\ desiredLabels # <<>> =>
            \A i \in 1..Len(desiredLabels) :
                LET n == trim(desiredLabels[i])
                IN  n # <<>> =>
                        \/ LabelExists(n, refs.labels)
                        \/ \E j \in Sent("POST labels") : log[j].arg = n
    /\ ( /\ pc = "done"
         /\ Sent("POST labels") # {}
         /\ \A j \in 1..Len(log) : ~log[j].ok => log[j].op = "POST labels" )
       => (outcome = "ok" /\ Sent("POST tasks") # {})
    /\ \A k \in Sent("POST tasks") : log[k].arg.labels = desiredLabels

\* The create-label requests of the run, in order.
LabelRequests == SelectSeq(log, LAMBDA e : e.op = "POST labels")

\* The k-th requested name has no label in the loaded snapshot and none that an
\* earlier request of the call created.
Lacking(k) ==
    /\ trim(desiredLabels[k]) # <<>>
    /\ ~LabelExists(desiredLabels[k], SnapCold.labels)
    /\ ~\E j \in 1..Len(LabelRequests) :
            /\ LabelRequests[j].ok
            /\ SameName(LabelRequests[j].arg, desiredLabels[k])
            /\ \E i \in 1..(k - 1) : trim(desiredLabels[i]) = LabelRequests[j].arg

\* C22: a call of ensureLabels sends no create-label request for a name that
\* equals, after trimming and lower-casing, a label of the snapshot or a label
\* created earlier in the call; it sends one for every other non-empty
\* requested name; and the snapshot grows by exactly the created labels, each
\* once.
C22_CreateOnlyMissing ==
    pc = "labelled" =>
        /\ \A j \in 1..Len(LabelRequests) :
                /\ LabelRequests[j].arg # <<>>
                /\ ~LabelExists(LabelRequests[j].arg, SnapCold.labels)
                /\ \A i \in 1..(j - 1) :
                        LabelRequests[i].ok =>
                            ~SameName(LabelRequests[i].arg, LabelRequests[j].arg)
        /\ \A k \in 1..Len(desiredLabels) :
                Lacking(k) =>
                    \E j \in 1..Len(LabelRequests) :
                        LabelRequests[j].arg = trim(desiredLabels[k])
        /\ Len(refs.labels) = Len(SnapCold.labels)
                + Cardinality({j \in 1..Len(LabelRequests) : LabelRequests[j].ok})
        /\ \A j \in 1..Len(LabelRequests) :
                LabelRequests[j].ok =>
                    Cardinality({m \in 1..Len(refs.labels) :
                        SameName(refs.labels[m].name, LabelRequests[j].arg)}) = 1

\* The name the snapshot holds for an id sent in a request (<<>> when none).
SentProjectName(b) == NameOf(b.project_id, refs.projects)
SentSectionName(b) == NameOf(b.section_id, SectionsOf(refs.sections, b.project_id))

sArrow == <<" ", ">", " ">>

\* C23 as stated: after a successful submission the destination summary is
\* "Inbox" when the request has no project, the name of the request's project
\* when it has no section, and that name, the separator and the name of the
\* request's section otherwise.
C23_DestinationSummary ==
    \A k \in Sent("POST tasks") :
        log[k].ok =>
            LET b == log[k].arg
            IN  /\ b.project_id = NoId => where = sInbox
                /\ (b.project_id # NoId /\ b.section_id = NoId) =>
                        (where = SentProjectName(b) /\ where # <<>>)
                /\ (b.project_id # NoId /\ b.section_id # NoId) =>
                        /\ SentProjectName(b) # <<>> /\ SentSectionName(b) # <<>>
                        /\ where = SentProjectName(b) \o sArrow \o SentSectionName(b)

\* C23 amended: as above, with the word "Project" in the place of the project's
\* name when the snapshot has no project with the id that was sent.
C23_SummaryOrPlaceholder ==
    \A k \in Sent("POST tasks") :
        log[k].ok =>
            LET b == log[k].arg
                pn == IF SentProjectName(b) # <<>> THEN SentProjectName(b)
                      ELSE <<"P", "r", "o", "j", "e", "c", "t">>
            IN  /\ b.project_id = NoId => where = sInbox
                /\ (b.project_id # NoId /\ b.section_id = NoId) => where = pn
                /\ (b.project_id # NoId /\ b.section_id # NoId) =>
                        /\ SentSectionName(b) # <<>>
                        /\ where = pn \o sArrow \o SentSectionName(b)

\* A task filed under a configured identifier the snapshot does not know.
C23_Witness ==
    /\ pc = "done" /\ outcome = "ok"
    /\ body.project_id = "p9"
    /\ where = <<"P", "r", "o", "j", "e", "c", "t">>

\* The phase of the handshake a position belongs to.
Phase(p) ==
    IF p = "start" THEN 0
    ELSE IF p \in {"stop", "stopPoll", "stopped"} THEN 1
    ELSE IF p \in {"poll", "second"} THEN 2
    ELSE IF p = "restore" THEN 3
    ELSE 4

\* What the handshake has done when the stop detection starts.
Opening ==
    <<Ev("clipboard.read", NoArg, TRUE), Ev("clipboard.write", sentinel, TRUE),
      Ev("recorder.toggle", NoArg, TRUE)>>

C25_StopNeverFails ==
    /\ [][Phase(pc) = 1 =>
            /\ Phase(pc') \in {1, 2}
            /\ outcome' = "running" /\ notes' = notes /\ log' = log]_vars
    /\ [][(pc = "stop" /\ pc' # "stop") =>
            \/ /\ pc' = "poll" /\ stopEnd' = "skipped"
               /\ stopPolls' = 0 /\ baseline' = {} /\ dirNames' = {}
            \/ /\ pc' = "stopPoll" /\ stopEnd' = "none"
               /\ stopPolls' = 0 /\ dirNames' = baseline']_vars
    /\ [][(pc = "stopPoll" /\ pc' = "stopPoll" /\ stopPolls' # stopPolls) =>
            /\ stopPolls < MaxStopPolls /\ stopPolls' = stopPolls + 1
            /\ dirNames' \subseteq baseline /\ baseline' = baseline]_vars
    /\ [][(pc = "stopPoll" /\ pc' # "stopPoll") =>
            /\ pc' = "stopped" /\ baseline' = baseline
            /\ IF stopPolls < MaxStopPolls
               THEN /\ stopEnd' = "detected"
                    /\ \E n \in dirNames' : n \notin baseline
               ELSE stopEnd' = "timeout"]_vars
    /\ [][(pc = "stopped" /\ pc' # "stopped") => pc' = "poll"]_vars

\* The window is over: an entry of the baseline went away, none came.
C25_Witness ==
    /\ pc = "stopped" /\ stopEnd = "timeout"
    /\ stopPolls = MaxStopPolls
    /\ baseline = {"rec0"} /\ dirNames = {}
    /\ outcome = "running"

\* The loops of the handshake end: a run that started reaches the restore, and
\* the restore is made.
HandshakeEnds ==
    /\ (pc = "start") ~> (pc = "restore")
    /\ (pc = "restore") ~> (Phase(pc) = 4)

\* C26: whatever the recorder and the clipboard do, stop detection and capture
\* polling end, and the run then has a captured transcript or has failed with
\* the capture timeout.
C26_HandshakeTerminates ==
    /\ HandshakeEnds
    /\ [](Phase(pc) = 4 => (captured # <<>> \/ outcome = CaptureTimeoutError(impl)))

\* C27: after a first read is accepted the run reads the clipboard once more
\* and the polling is over; what it captured is the second value when that is
\* non-empty and at least as long as the first, and the first value otherwise.
C27_SecondRead ==
    /\ [][pc = "second" =>
            /\ pc' \in {"second", "restore"}
            /\ polls' = polls /\ cur' = cur /\ last' = last
            /\ pc' = "restore" => cur2' = clipboard]_vars
    /\ [][(pc = "poll" /\ pc' = "second") =>
            (cur' = clipboard /\ Len(cur') >= MinCaptureLen /\ cur' # sentinel)]_vars
    /\ []((pc = "restore" /\ cur # <<>>) =>
            /\ (cur2 # <<>> /\ Len(cur2) >= Len(cur)) => captured = cur2
            /\ (cur2 = <<>> \/ Len(cur2) < Len(cur)) => captured = cur)

\* The paste was replaced by a shorter value before the second read: the first
\* read is kept.
C27_Witness ==
    /\ pc = "restore"
    /\ cur = sPayBill /\ cur2 = sPayPart
    /\ captured = sPayBill

\* The candidate texts of a guess, and the score of the k-th section: the
\* length of its name for every non-empty text whose normalized form holds the
\* normalized name.
GuessCandidates == <<args.title, args.description, args.transcription>>
Score(k) ==
    Len(args.sections[k].name)
        * Cardinality({i \in 1..3 :
                        /\ GuessCandidates[i] # <<>>
                        /\ Occurs(normalize(args.sections[k].name),
                                  normalize(GuessCandidates[i]))})
Top == {k \in 1..Len(args.sections) : \A j \in 1..Len(args.sections) : Score(j) <= Score(k)}

\* C28: the guess returns the earliest of the sections with the highest score,
\* and no section when the highest score is zero.
C28_GuessScore ==
    pc = "guessed" =>
        IF Top = {} \/ \A k \in Top : Score(k) = 0
        THEN result = <<NoId>>
        ELSE result = <<args.sections[SetMin(Top)].id>>

\* "Pay " precedes "bill" and both occur in the title; "bill" occurs in the
\* transcript as well, and wins on the sum.
C28_Witness ==
    /\ pc = "guessed"
    /\ args.sections = <<Ref("s6", sPayPad), Ref("s5", sbill)>>
    /\ args.title = sPayBill /\ args.description = <<>> /\ args.transcription = sLoud
    /\ Score(1) = 4 /\ Score(2) = 8
    /\ result = <<"s5">>

\* The sections of the resolved project whose names equal the extracted
\* section name after trimming and lower-casing.
ExactSections ==
    LET list == SectionsOf(refs.sections, projectId)
    IN  {k \in 1..Len(list) :
            json.sectionName # <<>> /\ SameName(list[k].name, json.sectionName)}

\* C29: no section is looked for without a project; with one, a section whose
\* name equals the extracted section name is the one submitted, whatever the
\* guess would say, and the guess decides only when no name is equal.
C29_ExactBeforeGuess ==
    pc \in {"submit", "done"} =>
        /\ projectId = NoId => (sectionId = NoId /\ Sent("GET sections") = {})
        /\ (projectId # NoId /\ ExactSections # {}) =>
                sectionId = SectionsOf(refs.sections, projectId)[SetMin(ExactSections)].id
        /\ (projectId # NoId /\ ExactSections = {}) =>
                sectionId = guessSectionIdFromContent(transcription, json, projectId, refs)
        /\ \A k \in Sent("POST tasks") : log[k].arg.section_id = sectionId

\* The extracted name is Meetings in capitals; the description and the
\* transcript name Upcoming bills, which the guess would take.
C29_Witness ==
    /\ pc = "done" /\ outcome = "ok"
    /\ json.sectionName = sMeetingsPad /\ json.description = sBills
    /\ transcription = sLoud
    /\ projectId = "p1" /\ sectionId = "s1"
    /\ guessSectionIdFromContent(transcription, json, projectId, refs) = "s2"
    /\ body.section_id = "s1"

\* C30: a task-creation request has a section only together with a project,
\* and the section is one of the sections the snapshot lists for that project.
C30_SectionOfProject ==
    \A k \in Sent("POST tasks") :
        LET b == log[k].arg
        IN  b.section_id # NoId =>
                /\ b.project_id # NoId
                /\ \E m \in 1..Len(SectionsOf(refs.sections, b.project_id)) :
                        SectionsOf(refs.sections, b.project_id)[m].id = b.section_id

\* The configured project has no sections; the extracted section name is the
\* name of a section of the other project, which the snapshot holds.
C30_Witness ==
    /\ pc = "done" /\ outcome = "ok"
    /\ json.sectionName = sMeetings
    /\ body.project_id = "p2" /\ body.section_id = NoId
    /\ "p1" \in DOMAIN refs.sections
    /\ \E m \in 1..Len(refs.sections["p1"]) : refs.sections["p1"][m].name = sMeetings

\* The matching rules that give a field.
Giving(f) ==
    {k \in MatchingRules :
        IF f = "priority" THEN TruthyNum(args.rules[k][f]) ELSE TruthyStr(args.rules[k][f])}

\* C31: a project, section, priority or due date the extracted object lacks is
\* taken from the earliest matching rule that gives that field, whichever rule
\* the other fields come from, and stays empty when no matching rule gives it.
C31_FirstMatchPerField ==
    pc = "ruled" =>
        \A f \in {"projectName", "sectionName", "priority", "due_string"} :
            args.enriched[f] = <<>> =>
                IF Giving(f) = {} THEN result[f] = <<>>
                ELSE result[f] = args.rules[SetMin(Giving(f))][f]

\* Two matching rules: the section and the due date come from the first, the
\* project and the priority from the second, whose section is another one.
C31_Witness ==
    /\ pc = "ruled"
    /\ args.rules = <<RulePay, RulePlain>>
    /\ MatchingRules = {1, 2}
    /\ args.enriched.projectName = <<>> /\ args.enriched.sectionName = <<>>
    /\ args.enriched.priority = <<>> /\ args.enriched.due_string = <<>>
    /\ result.sectionName = sMeetings /\ result.due_string = stomorrow
    /\ result.projectName = sWork /\ result.priority = <<3>>

\* The k-th rule is one the loop passes over: its pattern is empty, does not
\* compile, or occurs nowhere in title, description and transcript.
Skipped(k) ==
    LET pat == IF impl = "script" THEN trim(args.rules[k].test) ELSE args.rules[k].test
        hay == args.enriched.title \o <<"\n">> \o args.enriched.description
                    \o <<"\n">> \o args.transcription
    IN  \/ pat = <<>>
        \/ InvalidGroup(pat)
        \/ ~Occurs(pat, hay)

Without(list, k) == SubSeq(list, 1, k - 1) \o SubSeq(list, k + 1, Len(list))

\* C32: a rule with an empty, non-compiling or non-matching pattern changes
\* nothing: the result is the result for the list without that rule, so the
\* other rules count as before; and a list of such rules alone returns the
\* extracted object.
C32_SkippedRules ==
    pc = "ruled" =>
        /\ \A k \in 1..Len(args.rules) :
                Skipped(k) =>
                    result = applyRules(impl, args.transcription, args.enriched,
                                        Without(args.rules, k))
        /\ (\A k \in 1..Len(args.rules) : Skipped(k)) => result = args.enriched

\* A rule without a pattern that gives priority 4 stands before a matching rule
\* that gives priority 3.
C32_Witness ==
    /\ pc = "ruled"
    /\ args.rules = <<Rule(<<>>, sWork, sBills, <<svoice>>, Some(4), stomorrow), RulePlain>>
    /\ Skipped(1) /\ ~Skipped(2)
    /\ args.enriched.priority = <<>> /\ args.enriched.due_string = <<>>
    /\ result.priority = <<3>> /\ result.due_string = <<>>


\* C33. Rules are applied only when the rules feature is enabled and a
\* parseable rules file exists: once the model has answered and the answer has
\* been given its defaults, a run whose rules switch is off (the script has no
\* switch: its rules are always on), or whose rules file is missing or does not
\* parse, leaves classify with exactly the defaulted answer, at the archive
\* step and with no outcome set; and a result that differs from the defaulted
\* answer is seen only with the rules on and a parsed file.
Defaulted == WithDefaults(ParseModelText(modelText).obj, transcription)
RulesOff == (impl = "ext" /\ ~prefs.enableRules) \/ rulesFile.state # "ok"
C33_RulesOnlyWhenEnabled ==
    [][(Classify /\ modelText' # NoText /\ ~analyzeThrows(modelText')) =>
          /\ RulesOff' =>
                (json' = Defaulted' /\ pc' = "archive" /\ outcome' = outcome
                    /\ notes' = notes)
          /\ json' # Defaulted' => ~RulesOff']_vars
C33_Witness ==
    /\ pc = "archive" /\ impl = "ext" /\ ~prefs.enableRules
    /\ rulesFile = RulesFile("ok", <<RulePlain>>)
    /\ RuleMatches(impl, RulePlain, Defaulted, transcription)
    /\ json = Defaulted /\ json.projectName = <<>>


\* C34. The section prefetch uses a count within 1..12 whatever is configured,
\* requests the sections of exactly those of the first min(count, number of
\* projects) projects of the snapshot that the snapshot has no sections for, in
\* order and each once whether or not the request before it succeeded, and
\* leaves classify going on to the model call.
PrefetchCount == maxProjectsOf(impl, prefs.sectionsPrefetch)
FirstProjects(n) ==
    SubSeq(refs.projects, 1, IF n < Len(refs.projects) THEN n ELSE Len(refs.projects))
ToPrefetch(n) ==
    SelectSeq(FirstProjects(n), LAMBDA p : ~HasSections(refs.sections, p.id))
C34_PrefetchCount ==
    [][Prefetch =>
          /\ PrefetchCount \in 1..PrefetchMax
          /\ Len(NewRequests) = Len(ToPrefetch(PrefetchCount))
          /\ \A k \in 1..Len(NewRequests) :
                /\ NewRequests[k].op = "GET sections"
                /\ NewRequests[k].arg = ToPrefetch(PrefetchCount)[k].id
          /\ pc' = "model" /\ outcome' = outcome]_vars


\* C35. Classify fails only on a non-success answer of the model service, that
\* failure ends the run with no archive file written, no label created and no
\* task-creation request sent, and the model is called at most once in a run.
ModelFailed == \E k \in Sent("POST messages") : ~log[k].ok
C35_ClassifierFailure ==
    /\ [](Cardinality(Sent("POST messages")) <= 1)
    /\ [](ModelFailed =>
            /\ pc = "done" /\ outcome = "Anthropic error"
            /\ Sent("archive.write") = {}
            /\ Sent("POST labels") = {}
            /\ Sent("POST tasks") = {})
    /\ [][(Classify /\ pc' = "done") => ModelFailed']_vars


\* C36. The time-to-live bounds the age of the cached taxonomy: the projects
\* and the labels of a snapshot that getTodoistRefs has just returned were
\* fetched from the service at most a time-to-live before the call, whatever
\* calls of getTodoistRefs, ensureSections and ensureLabels came before.
JustReturned == pc = "held" /\ args # <<>> /\ args[Len(args)] = "getTodoistRefs"
C36_TtlBoundsAge ==
    JustReturned => (result # <<>> /\ now - result[1] <= ttlMs)


\* The requests of this step that failed, and whether one of them was followed
\* by a request that succeeded.
FailedNow == {k \in 1..Len(NewRequests) : ~NewRequests[k].ok}
RetriedNow == \E k \in FailedNow : \E j \in (k + 1)..Len(NewRequests) : NewRequests[j].ok

\* What both forms of C37 say of a step of the resolver: the error of a failed
\* section request is swallowed and the task goes on to be submitted in the
\* resolved project; a project whose sections the snapshot does not hold is
\* asked for, so a project left unfetched by a failure is fetched again;
\* requests that all failed leave the snapshot and the cache file as they were,
\* and a request that succeeds after a failed one leaves them as it would have
\* without the failure.
ResolverSwallows ==
    Resolve =>
        /\ pc' = "submit" /\ outcome' = outcome /\ notes' = notes
        /\ projectId' = ResolveProject(impl, prefs, json.projectName, refs.projects)
        /\ \A k \in 1..Len(NewRequests) :
                NewRequests[k].op = "GET sections" /\ NewRequests[k].arg = projectId'
        /\ (projectId' # NoId /\ ~HasSections(refs.sections, projectId')) =>
                NewRequests # <<>>
        /\ (\A k \in 1..Len(NewRequests) : ~NewRequests[k].ok) =>
                (refs' = refs /\ cacheFile' = cacheFile)
        /\ RetriedNow =>
                /\ refs' = [refs EXCEPT !.sections =
                                WithSections(@, projectId', RemoteSectionsOf(projectId'))]
                /\ cacheFile' = WriteCache(cacheFile, refs', now, cacheWritable)

Filed ==
    \A k \in Sent("POST tasks") :
        log[k].arg.project_id = projectId /\ log[k].arg.section_id = sectionId

\* C37 as stated: whenever a request for the sections fails in the resolver,
\* the task is filed in the resolved project without a section.
C37_FailedSectionsFetch ==
    /\ [][ResolverSwallows]_vars
    /\ [][(Resolve /\ FailedNow # {}) => sectionId' = NoId]_vars
    /\ []Filed

\* C37. A request for the sections that fails raises an error the resolver
\* swallows and leaves the snapshot and the cache file unchanged, the project
\* still counting as not fetched, so that a later call asks again; the task is
\* filed in the resolved project, and without a section unless a later request
\* of the same resolution succeeded.
C37_FailedFetchUnlessRetried ==
    /\ [][ResolverSwallows]_vars
    /\ [][(Resolve /\ FailedNow # {} /\ ~RetriedNow) => sectionId' = NoId]_vars
    /\ []Filed
C37_Witness ==
    /\ pc = "done" /\ outcome = "ok"
    /\ Len(log) = 2
    /\ log[1] = Ev("GET sections", "p1", FALSE)
    /\ log[2].op = "POST tasks" /\ log[2].ok
    /\ body.project_id = "p1" /\ body.section_id = NoId
    /\ ~HasSections(refs.sections, "p1")
    /\ guessSectionIdFromContent(transcription, json, "p1", SnapWarm) = "s2"


\* A value of the form every run gives its sentinel.
SentinelPrefix == SubSeq(SentinelOf("1"), 1, 18)
IsSentinel(v) ==
    /\ Len(v) >= Len(SentinelPrefix) + 2
    /\ SubSeq(v, 1, Len(SentinelPrefix)) = SentinelPrefix
    /\ SubSeq(v, Len(v) - 1, Len(v)) = <<"_", "_">>

\* C38. With another run writing the shared clipboard, a run never takes a
\* sentinel for its transcript: the candidate of the first read, the value the
\* second read returns and the transcript handed on are neither the run's own
\* sentinel nor the sentinel of the other run.
C38_NoSentinelTranscript ==
    /\ pc = "second" => ~IsSentinel(cur)
    /\ ~IsSentinel(captured)
    /\ ~IsSentinel(transcription)


\* What implementation i makes of the inputs of this run (transcript, extracted
\* task after the rules, snapshot, settings), every section request
\* succeeding: the project, the section, the request body and the destination
\* summary.
ProjectBy(i) == ResolveProject(i, prefs, json.projectName, refs.projects)
FirstBy(i) == SectionsFirst(i, StNow, ProjectBy(i), json, now, cacheWritable, TRUE)
FetchedBy(i) ==
    SectionsFetched(i, StNow, ProjectBy(i), json, now, cacheWritable, TRUE, TRUE)
SectionBy(i) ==
    IF ProjectBy(i) = NoId THEN NoId
    ELSE SectionFrom(transcription, json, ProjectBy(i), FirstBy(i).refs, FetchedBy(i).refs)
BodyBy(i) ==
    TaskBody(i, transcription, json, ProjectBy(i), SectionBy(i), desiredLabels)
WhereBy(i) == Where(ProjectBy(i), SectionBy(i), FetchedBy(i).refs)

\* The runs the two implementations can be compared on: a submitted task, no
\* failed request, and settings both implementations have (the script has no
\* default project name).
Comparable ==
    /\ pc = "done" /\ outcome = "ok"
    /\ \A k \in 1..Len(log) : log[k].ok
    /\ prefs.defaultProjectName = <<>>

\* C39. The two implementations are one core: from the same transcript, the
\* same extracted task, the same snapshot and equivalent settings both send the
\* same task-creation request body and derive the same destination summary.
C39_OneCore ==
    Comparable =>
        \A i \in Impls : body = BodyBy(i) /\ where = WhereBy(i)

====
